---- MODULE Spec2Model ----
(***************************************************************************)
(* Account linking (OAuth2 + PKCE), credential vault and multi-platform    *)
(* publish of the highshift.cloud backend, as state machines.              *)
(*                                                                         *)
(*   Spec         connect / callback over the OAuthState and User stores   *)
(*   SpecRace     the same with two callbacks in flight at once             *)
(*   SpecVault    ensureValidAccessToken on one Linked Account             *)
(*   SpecPublish  postMulti over a list of targets, and postSingle         *)
(*   SpecVaultRace  two ensureValidAccessToken calls on one Linked Account *)
(*   SpecSchedule schedule, cancel and the Dispatcher's run of an intent   *)
(*   SpecKeys     apiKeyAuth, connect's lookup and POST /regenerate-key    *)
(*   SpecLinked   connect / callback for an Identity that has an account   *)
(*   SpecCrypto   encrypt and decrypt of a stored token, on strings        *)
(*   SpecScheduleCrash  SpecSchedule with a worker that may die in a run   *)
(*   SpecScheduleFair   SpecSchedule under a fair poller                   *)
(*   SpecScheduleSlow   the same with a provider that may never answer     *)
(*   SpecScheduleSteps  SpecSchedule with create taken await by await      *)
(*   SpecRoutes   the key and schedule routes with their middleware        *)
(*   SpecAdapters connect / callback for each of the five adapters         *)
(*   SpecOwners   list and cancel over the intents of two Identities       *)
(*   SpecDisconnect  disconnect, and the publishes that follow it          *)
(*                                                                         *)
(* Conventions: 0 stands for a JavaScript value that is absent or falsy    *)
(* (undefined, null, ''), <<>> for a null date or an empty stored string,  *)
(* <<t>> for the date t (seconds).  Identifiers and tokens are naturals.   *)
(* An error code is a tuple of strings: <<"invalid_state">>, or            *)
(* <<"twitter", "api_error">> for the adapters' `${platform}_api_error`.   *)
(***************************************************************************)
EXTENDS Integers, Sequences, FiniteSets, TLC

(* ------------------------------ bounds -------------------------------- *)
MaxStates == 2
\* PKCE state records a run creates
MaxUsers == 2
\* Identities a run creates
ClockStep == 700
\* seconds one tick of the connect flow's clock advances
MaxClock == 700
\* last instant of the connect flow's clock

(* ------------------------- program constants -------------------------- *)
StateTtlSeconds == 600
SafetyMarginSeconds == 60
ScanLimit == 5000

Platforms == {"twitter", "facebook", "instagram", "linkedin", "youtube"}

(* ------------------------------ state --------------------------------- *)
VARIABLES
  now,          \* Date.now(), in seconds
  users,        \* the User collection: users[id] = [apiKeyHash, v, linkedAccounts]
  nKey,         \* API keys generated so far (generateApiKey is fresh: key n+1)
  handedOut,    \* the API keys a response has carried to a client
  nAcc,         \* subdocument _ids generated so far
  oauthStates,  \* the OAuthState collection: a set of records
  nState,       \* state tokens generated so far (randomState is fresh)
  connResp,     \* the response sent by the last step, if it ended a connect
  cb,           \* the callback requests in flight: position and locals
  resp,         \* the response sent by the last step, if it ended a callback
  consumed,     \* (state, platform) pairs a callback has completed successfully with
  vt,           \* the ensureValidAccessToken calls in flight: position and locals
  vresp,        \* what the last step returned or threw, if it ended such a call
  nTok,         \* refresh requests the provider has answered so far
  pm,           \* the postMulti request in flight: position and locals
  presp,        \* the response sent by the last step, if it ended a postMulti
  nPub,         \* postMulti requests received so far
  posts,        \* the ScheduledPost collection: posts[id]
  jobs,         \* the agendaJobs collection: jobs[id]
  dp,           \* the publish_scheduled_post run in flight: position and locals
  cn,           \* the cancelScheduledPost request in flight: position and locals
  sresp,        \* the response sent by the last step, if it ended a schedule request
  kresp,        \* what the last step answered, if it resolved or regenerated a key
  nRegen,       \* key regenerations served so far
  cx,           \* the last call of encrypt / decrypt and what it returned
  delivered,    \* history: the publishes a provider accepted for a scheduled post
  cr            \* the locals of a create request between its awaits

linkVars == <<nKey, handedOut, nAcc, oauthStates, nState, connResp, cb, resp,
              consumed>>
vaultVars == <<vt, vresp, nTok>>
publishVars == <<pm, presp, nPub>>
scheduleVars == <<posts, jobs, dp, cn, sresp, delivered, cr>>
keyVars == <<kresp, nRegen>>
utilVars == <<cx>>

(* ------------------------------ errors -------------------------------- *)
\* AppError(message, statusCode, code): utils/errors.js
AppError(code, status) == [kind |-> "app", code |-> code, status |-> status]
\* an axios error carrying the provider's HTTP response status
AxiosError(status) == [kind |-> "axios", code |-> <<"http">>, status |-> status]
\* any other Error (getConfig, mongoose validation or version error, TypeError)
PlainError(what) == [kind |-> "plain", code |-> <<what>>, status |-> 0]
NoError == [kind |-> "none", code |-> <<>>, status |-> 0]

\* mapAxiosError of every adapter: it reads only err.response?.status, so an
\* AppError or a plain Error (no response) becomes `${platform}_api_error`, 502
MapAxiosError(platform, err) ==
  LET status == IF err.kind = "axios" THEN err.status ELSE 0
  IN  IF status = 401 THEN AppError(<<platform, "auth_failed">>, 401)
      ELSE IF status = 429 THEN AppError(<<platform, "rate_limited">>, 429)
      ELSE AppError(<<platform, "api_error">>, IF status # 0 THEN status ELSE 502)

\* errorHandler: what the client receives for an error passed to next()
ErrorHandler(err) ==
  [status |-> IF err.kind = "plain" \/ err.status = 0 THEN 500 ELSE err.status,
   code   |-> IF err.kind = "plain" THEN <<"internal_error">> ELSE err.code]

(* ---------------------------- utilities ------------------------------- *)
\* utils/crypto.js: '' for a falsy plaintext, else iv.tag.ciphertext
Encrypt(plain) == IF plain = 0 THEN <<>> ELSE <<"aes-256-gcm", plain>>
Decrypt(enc) == IF enc = <<>> THEN 0 ELSE enc[2]

\* utils/apiKey.js: bcrypt hash and compare
HashApiKey(raw) == <<"bcrypt", raw>>
VerifyApiKey(raw, hash) == hash = HashApiKey(raw)

(* ------------------- utils/crypto.js on strings ----------------------- *)
\* Encrypt and Decrypt above are what the flows see of a stored token.  The
\* operators below follow encrypt and decrypt step by step: a string is a
\* sequence of Unicode code points, a Buffer a sequence of bytes.
MaxPlainLen == 3
\* code points of a plaintext of a run
KeyLength == 32
IvLength == 12
TagLength == 16
Dot == 46
Pad == 61
ReplacementChar == 65533

\* the characters plaintexts are made of: "a", "." and the two-byte "é"
PlainChars == {97, Dot, 233}

\* Buffer.from(s, 'utf8') for code points below 2048
Utf8Char(cp) ==
  IF cp < 128 THEN <<cp>> ELSE <<192 + (cp \div 64), 128 + (cp % 64)>>
RECURSIVE Utf8Bytes(_)
Utf8Bytes(s) ==
  IF s = <<>> THEN <<>> ELSE Utf8Char(Head(s)) \o Utf8Bytes(Tail(s))

\* mutant: the bytes are read one character each, as latin1 does
Latin1String(b) == b

\* buf.toString('utf8'): one- and two-byte sequences, U+FFFD for a byte that
\* starts or continues none
RECURSIVE Utf8String(_)
Utf8String(b) ==
  IF b = <<>> THEN <<>>
  ELSE IF b[1] < 128 THEN <<b[1]>> \o Utf8String(Tail(b))
  ELSE IF /\ b[1] >= 194 /\ b[1] < 224
          /\ Len(b) >= 2 /\ b[2] >= 128 /\ b[2] < 192
  THEN <<(b[1] - 192) * 64 + (b[2] - 128)>> \o Utf8String(Tail(Tail(b)))
  ELSE <<ReplacementChar>> \o Utf8String(Tail(b))

\* the base64 alphabet: A-Z, a-z, 0-9, + and /
B64Char(n) ==
  IF n < 26 THEN 65 + n
  ELSE IF n < 52 THEN 71 + n
  ELSE IF n < 62 THEN n - 4
  ELSE IF n = 62 THEN 43 ELSE 47
B64Value(c) ==
  IF c >= 65 /\ c <= 90 THEN c - 65
  ELSE IF c >= 97 /\ c <= 122 THEN c - 71
  ELSE IF c >= 48 /\ c <= 57 THEN c + 4
  ELSE IF c = 43 THEN 62 ELSE 63

\* buf.toString('base64'): three bytes to four characters, padded with "="
RECURSIVE ToBase64(_)
ToBase64(b) ==
  IF b = <<>> THEN <<>>
  ELSE IF Len(b) = 1
  THEN <<B64Char(b[1] \div 4), B64Char((b[1] % 4) * 16), Pad, Pad>>
  ELSE IF Len(b) = 2
  THEN <<B64Char(b[1] \div 4), B64Char((b[1] % 4) * 16 + (b[2] \div 16)),
         B64Char((b[2] % 16) * 4), Pad>>
  ELSE <<B64Char(b[1] \div 4), B64Char((b[1] % 4) * 16 + (b[2] \div 16)),
         B64Char((b[2] % 16) * 4 + (b[3] \div 64)), B64Char(b[3] % 64)>>
       \o ToBase64(SubSeq(b, 4, Len(b)))

\* Buffer.from(s, 'base64') on padded groups of four characters
RECURSIVE FromBase64(_)
FromBase64(s) ==
  IF Len(s) < 4 THEN <<>>
  ELSE LET v == [i \in 1..4 |-> IF s[i] = Pad THEN 0 ELSE B64Value(s[i])]
           b1 == v[1] * 4 + (v[2] \div 16)
           b2 == (v[2] % 16) * 16 + (v[3] \div 4)
           b3 == (v[3] % 4) * 64 + v[4]
       IN  (IF s[3] = Pad THEN <<b1>>
            ELSE IF s[4] = Pad THEN <<b1, b2>> ELSE <<b1, b2, b3>>)
           \o FromBase64(SubSeq(s, 5, Len(s)))

\* String.prototype.split(sep): the pieces between the separators
RECURSIVE Split(_, _)
Split(s, sep) ==
  IF \A i \in 1..Len(s) : s[i] # sep THEN <<s>>
  ELSE LET k == CHOOSE i \in 1..Len(s) :
                  s[i] = sep /\ \A j \in 1..(i - 1) : s[j] # sep
       IN  <<SubSeq(s, 1, k - 1)>> \o Split(SubSeq(s, k + 1, Len(s)), sep)

\* getKey: the 32 bytes TOKEN_ENC_KEY_BASE64 decodes to, the same for every
\* call of a process (the key of the test: Buffer.alloc(32, 7))
getKey == [i \in 1..KeyLength |-> 7]

\* crypto.randomBytes(12): the nonces of a run
RandomIvs ==
  { [i \in 1..IvLength |-> 0], [i \in 1..IvLength |-> (i * 37) % 256] }

\* AES-256 in counter mode: a keystream fixed by key, nonce and position is
\* combined with the data byte by byte (addition modulo 256 stands for the
\* XOR: like it, it is undone by the same keystream)
KeyStream(key, iv, i) ==
  (key[((i - 1) % KeyLength) + 1] * 31 + iv[((i - 1) % IvLength) + 1] * 17
     + i * 7) % 256
Cipher(key, iv, bytes) ==
  [i \in 1..Len(bytes) |-> (bytes[i] + KeyStream(key, iv, i)) % 256]
Decipher(key, iv, bytes) ==
  [i \in 1..Len(bytes) |-> (bytes[i] + 256 - KeyStream(key, iv, i)) % 256]

RECURSIVE ByteSum(_)
ByteSum(b) == IF b = <<>> THEN 0 ELSE Head(b) + ByteSum(Tail(b))
\* cipher.getAuthTag(): 16 bytes fixed by key, nonce and ciphertext
AuthTag(key, iv, ciphertext) ==
  [i \in 1..TagLength |->
     (ByteSum(ciphertext) + key[i] + iv[((i - 1) % IvLength) + 1] + i) % 256]

\* what a call of decrypt comes to
Returned(text) == [thrown |-> <<>>, text |-> text]
Thrown(what) == [thrown |-> <<what>>, text |-> <<>>]

\* encrypt, lines 26-34, with the nonce randomBytes hands it
encrypt(plainText, iv) ==
  IF plainText = <<>> THEN <<>>
  ELSE LET key == getKey
           ciphertext == Cipher(key, iv, Utf8Bytes(plainText))
           tag == AuthTag(key, iv, ciphertext)
       IN  ToBase64(iv) \o <<Dot>> \o ToBase64(tag) \o <<Dot>>
             \o ToBase64(ciphertext)

\* decrypt, lines 36-49
decrypt(enc) ==
  IF enc = <<>> THEN Returned(<<>>)
  ELSE LET key == getKey
           parts == Split(enc, Dot)
           iv == FromBase64(parts[1])
           tag == FromBase64(parts[2])
           ciphertext == FromBase64(parts[3])
       IN  IF Len(parts) # 3 THEN Thrown("Invalid encrypted token format")
           ELSE IF tag # AuthTag(key, iv, ciphertext)
           THEN Thrown("Unsupported state or unable to authenticate data")
           ELSE Returned(Utf8String(Decipher(key, iv, ciphertext)))

IdleCx == [op |-> "none", plainText |-> <<>>, enc |-> <<>>,
           out |-> Returned(<<>>)]

RECURSIVE PlainTexts(_)
PlainTexts(n) ==
  IF n = 0 THEN {<<>>}
  ELSE PlainTexts(n - 1) \cup
       { Append(s, ch) : s \in {t \in PlainTexts(n - 1) : Len(t) = n - 1},
                         ch \in PlainChars }

\* utils/pkce.js
ChallengeFromVerifier(verifier) == <<"S256", verifier>>

\* mutant: the result of the comparison is ignored, the first candidate wins
ResolveAny(us, raw) == IF Len(us) > 0 THEN 1 ELSE 0

\* the scan of connect and of apiKeyAuth: User.find({}).limit(5000), in the
\* order of insertion, and the first candidate whose hash verifies
ResolveApiKey(us, raw) ==
  LET candidates == 1..(IF Len(us) < ScanLimit THEN Len(us) ELSE ScanLimit)
      ok == {i \in candidates : VerifyApiKey(raw, us[i].apiKeyHash)}
  IN  IF ok = {} THEN 0 ELSE CHOOSE i \in ok : \A j \in ok : i <= j

(* ------------------------- the connect flow --------------------------- *)
\* platforms the requests of a run name ("myspace" has no adapter): connect
\* requests, and the callbacks the providers redirect to
ConnectPlatforms == {"twitter", "myspace"}
CallbackPlatforms == {"twitter", "facebook", "myspace"}
\* account ids the provider's profile reports (0: the profile carries none)
ProfileIds == {0, 1}
\* a value that is never generated as a key
BogusKey == MaxUsers + 1
\* token grants of a code exchange: access_token, refresh_token, expires_in
ExchangeGrants ==
  { [access_token |-> 11, refresh_token |-> 21, expires_in |-> 3600],
    [access_token |-> 0, refresh_token |-> 0, expires_in |-> 0] }
NoGrant == [access_token |-> 0, refresh_token |-> 0, expires_in |-> 0]
\* what the provider answers to the code exchange and the profile request:
\* the HTTP status of each, the grant and the account id of the profile
ProviderReplies ==
  { [exchange |-> 400, profile |-> 200, grant |-> NoGrant, accountId |-> 0],
    [exchange |-> 401, profile |-> 200, grant |-> NoGrant, accountId |-> 0],
    [exchange |-> 200, profile |-> 401, grant |-> NoGrant, accountId |-> 0] }
  \cup { [exchange |-> 200, profile |-> 200, grant |-> g, accountId |-> a] :
           g \in ExchangeGrants, a \in ProfileIds }
\* the callback requests of a run: platform, code and state of the query, and
\* whether the provider reported an error (then possibly without a code)
CallbackRequests ==
  { [platform |-> p, hasCode |-> TRUE, state |-> t, hasError |-> e] :
      p \in CallbackPlatforms, t \in 0..MaxStates, e \in BOOLEAN }
  \cup { [platform |-> "twitter", hasCode |-> FALSE, state |-> 1,
          hasError |-> TRUE] }
\* how the success response is delivered: JSON, a redirect to a valid URL,
\* or a CLIENT_SUCCESS_REDIRECT that `new URL` rejects
RedirectModes == {"json", "redirect", "bad_url"}

Callers == {1, 2}

NoRq == [platform |-> "", hasCode |-> FALSE, state |-> 0, hasError |-> FALSE]
NoState == [state |-> 0, platform |-> "", codeVerifier |-> 0, userId |-> 0,
            createdAt |-> 0]
\* the locals of a callback request; replay and created are history: whether
\* the state presented had already been consumed when the request arrived,
\* and the Identity this request created (0: none)
IdleCb == [pc |-> "idle", rq |-> NoRq, st |-> NoState, grant |-> NoGrant,
           expiresAt |-> <<>>, accountId |-> 0, uid |-> 0, doc |-> <<>>,
           rawApiKey |-> 0, created |-> 0, replay |-> FALSE,
           codeVerifier |-> 0, sentVerifier |-> 0]
\* a callback's response: thrown is the error raised in the handler, sent
\* what the client receives; apiKey, platform and accountId are the body
NoResp == [kind |-> "none", thrown |-> NoError, sent |-> ErrorHandler(NoError),
           apiKey |-> 0, platform |-> "", accountId |-> 0, rq |-> NoRq,
           found |-> FALSE, hadUserId |-> FALSE, created |-> 0,
           replay |-> FALSE]
\* the answer of apiKeyAuth, of POST /regenerate-key or of DELETE
\* /linked-accounts/disconnect: raw is the X-API-Key presented, uid the
\* Identity set as req.user, apiKey the new key returned, linkedAccountId the
\* subdocument a disconnect names
NoKeyResp == [kind |-> "none", op |-> "", sent |-> ErrorHandler(NoError),
              raw |-> 0, uid |-> 0, apiKey |-> 0, linkedAccountId |-> 0]

NoConnResp == [kind |-> "none", sent |-> ErrorHandler(NoError), state |-> 0,
               challenge |-> <<>>, platform |-> "", apiKey |-> 0]

NoAccount == [id |-> 0, platform |-> "", accountId |-> 0,
              accessTokenEnc |-> <<>>, refreshTokenEnc |-> <<>>,
              expiresAt |-> <<>>]
\* the locals of an ensureValidAccessToken call: the document loaded (its
\* version v and the subdocument acc at index idx, mutated in memory by the
\* refresh), the decrypted refresh token, the grant received; before,
\* loadedAt, grantAt, called and http are history: the subdocument as loaded
\* and when, when the grant arrived, whether adapter.refreshToken was
\* invoked and whether it sent a request to the provider
IdleVault == [pc |-> "idle", uid |-> 0, idx |-> 0, v |-> 0, acc |-> NoAccount,
              before |-> NoAccount, refreshToken |-> 0, loadedAt |-> 0,
              grant |-> NoGrant, grantAt |-> 0]
\* the end of an ensureValidAccessToken call: the token returned or the
\* error thrown
NoVaultResp == [kind |-> "none", c |-> 0, thrown |-> NoError, accessToken |-> 0,
                called |-> FALSE, http |-> FALSE, uid |-> 0, idx |-> 0,
                before |-> NoAccount, loadedAt |-> 0, grant |-> NoGrant,
                grantAt |-> 0]
\* the locals of a postMulti request: the targets of the body, the index of
\* the target being processed, the results object; attempted is history:
\* the targets gone through so far, with the outcome recorded for each
IdlePm == [pc |-> "idle", targets |-> <<>>, i |-> 0, results |-> <<>>,
           attempted |-> <<>>, hasMedia |-> FALSE]
NoPubResp == [kind |-> "none", op |-> "none", thrown |-> NoError,
              sent |-> ErrorHandler(NoError), targets |-> <<>>,
              results |-> <<>>, attempted |-> <<>>]

\* OAuthState.findOne({ state, platform })
FindState(states, tok, platform) ==
  IF \E s \in states : s.state = tok /\ s.platform = platform
  THEN CHOOSE s \in states : s.state = tok /\ s.platform = platform
  ELSE NoState

\* OAuthState.deleteOne({ _id: st._id }): state is unique, so it names the record
DeleteState(states, st) == {s \in states : s.state # st.state}

\* the TTL index on createdAt (expires: 600): records the monitor may remove
Expired(states, t) == {s \in states : s.createdAt + StateTtlSeconds <= t}

\* callback: user.linkedAccounts.some(a => platform and accountId equal)
Exists(doc, platform, accountId) ==
  \E i \in 1..Len(doc) : doc[i].platform = platform /\ doc[i].accountId = accountId

\* callback: the subdocument pushed into user.linkedAccounts
NewLinkedAccount(id, platform, accountId, grant, expiresAt) ==
  [id |-> id, platform |-> platform, accountId |-> accountId,
   accessTokenEnc |-> Encrypt(grant.access_token),
   refreshTokenEnc |-> IF grant.refresh_token # 0
                       THEN Encrypt(grant.refresh_token) ELSE <<>>,
   expiresAt |-> expiresAt]

\* LinkedAccountSchema: platform, accountId and accessTokenEnc are required
ValidAccount(a) ==
  a.platform # "" /\ a.accountId # 0 /\ a.accessTokenEnc # <<>>

\* callback: rawApiKey stays null unless a new Identity is created
RawApiKeyFor(st, fresh) == IF st.userId # 0 THEN 0 ELSE fresh

\* the catch of callback: mapAxiosError whenever the platform has an adapter
CallbackSent(platform, err) ==
  ErrorHandler(IF platform \in Platforms THEN MapAxiosError(platform, err) ELSE err)

ErrorResp(l, err) ==
  [kind |-> "error", thrown |-> err, sent |-> CallbackSent(l.rq.platform, err),
   apiKey |-> 0, platform |-> "", accountId |-> 0, rq |-> l.rq,
   found |-> l.st # NoState, hadUserId |-> l.st.userId # 0,
   created |-> l.created, replay |-> l.replay]

\* the adapters whose exchangeCode takes codeVerifier and sends it as
\* code_verifier: twitter.js 28-35, linkedin.js 26-34, youtube.js 28-36; the
\* exchangeCode of facebook.js (40-51) and of the instagram adapter (part_012
\* 39-49) takes { code, redirectUri } only
SendsVerifier == {"twitter", "linkedin", "youtube"}

\* the code_verifier parameter of the token request exchangeCode sends for
\* the codeVerifier the callback hands it (0: the request carries none)
TokenRequestVerifier(platform, codeVerifier) ==
  IF platform \in SendsVerifier THEN codeVerifier ELSE 0

\* mutant: the record keeps a verifier other than the one the challenge of
\* the URL was computed from
NewOAuthStateOtherVerifier(state, platform, verifier, userId, t) ==
  [state |-> state, platform |-> platform, codeVerifier |-> verifier + 1,
   userId |-> userId, createdAt |-> t]

\* connect, lines 56-62: OAuthState.create({ state, platform, codeVerifier:
\* verifier, userId, ... })
NewOAuthState(state, platform, verifier, userId, t) ==
  [state |-> state, platform |-> platform, codeVerifier |-> verifier,
   userId |-> userId, createdAt |-> t]

\* GET /connect/:platform
Connect(platform, apiKey, cfgOk) ==
  LET userId == ResolveApiKey(users, apiKey)
      err(e) == /\ connResp' = [kind |-> "error", sent |-> ErrorHandler(e),
                                state |-> 0, challenge |-> <<>>,
                                platform |-> platform, apiKey |-> apiKey]
                /\ UNCHANGED <<oauthStates, nState>>
  IN  /\ IF platform \notin Platforms
         THEN err(AppError(<<"unsupported_platform">>, 400))
         ELSE IF apiKey # 0 /\ userId = 0
         THEN err(AppError(<<"invalid_api_key">>, 401))
         ELSE /\ nState < MaxStates
              /\ nState' = nState + 1
              /\ oauthStates' = oauthStates \cup
                   {NewOAuthState(nState + 1, platform, nState + 1, userId,
                                  now)}
              \* adapter.getAuthUrl calls getConfig, which throws when the
              \* provider's credentials are missing
              /\ connResp' =
                   IF cfgOk
                   THEN [kind |-> "ok", sent |-> ErrorHandler(NoError),
                         state |-> nState + 1,
                         challenge |-> ChallengeFromVerifier(nState + 1),
                         platform |-> platform, apiKey |-> apiKey]
                   ELSE [kind |-> "error",
                         sent |-> ErrorHandler(PlainError("config_missing")),
                         state |-> 0, challenge |-> <<>>, platform |-> platform,
                         apiKey |-> apiKey]
      /\ resp' = NoResp
      /\ kresp' = NoKeyResp
      /\ UNCHANGED <<now, users, nKey, handedOut, nAcc, cb, consumed>>
      /\ UNCHANGED <<vaultVars, publishVars, scheduleVars, nRegen, utilVars>>

\* the provider is called only by a callback that found its state record
RepliesFor(rq) ==
  IF /\ rq.platform \in Platforms /\ rq.hasCode /\ ~rq.hasError
     /\ FindState(oauthStates, rq.state, rq.platform) # NoState
  THEN ProviderReplies
  ELSE {CHOOSE r \in ProviderReplies : r.exchange = 400}

\* callback, lines 85-117: validation, state lookup, code exchange, profile
CallbackBegin(c, rq, reply) ==
  LET st == FindState(oauthStates, rq.state, rq.platform)
      replay == <<rq.state, rq.platform>> \in consumed
      early == [IdleCb EXCEPT !.rq = rq, !.replay = replay]
      \* lines 107-111: exchangeCode({ code, redirectUri, codeVerifier:
      \* st.codeVerifier })
      \* sentVerifier: the code_verifier of the adapter's token request
      called == [early EXCEPT !.st = st, !.codeVerifier = st.codeVerifier,
                   !.sentVerifier = TokenRequestVerifier(rq.platform,
                                                         st.codeVerifier)]
      fail(l, e) == /\ resp' = ErrorResp(l, e)
                    /\ cb' = [cb EXCEPT ![c] = IdleCb]
  IN  /\ cb[c].pc = "idle"
      /\ IF rq.platform \notin Platforms
         THEN fail(early, AppError(<<"unsupported_platform">>, 400))
         ELSE IF ~rq.hasCode \/ rq.state = 0
         THEN fail(early, AppError(<<"validation_error">>, 400))
         ELSE IF rq.hasError
         THEN fail(early, AppError(<<"oauth_error">>, 400))
         ELSE IF st = NoState
         THEN fail(early, AppError(<<"invalid_state">>, 400))
         ELSE IF reply.exchange # 200
         THEN fail(called, AxiosError(reply.exchange))
         ELSE IF reply.profile # 200
         THEN fail(called, AxiosError(reply.profile))
         ELSE /\ cb' = [cb EXCEPT ![c] =
                   [called EXCEPT
                      !.pc = "upsert", !.grant = reply.grant,
                      !.expiresAt = IF reply.grant.expires_in # 0
                                    THEN <<now + reply.grant.expires_in>>
                                    ELSE <<>>,
                      !.accountId = reply.accountId]]
              /\ resp' = NoResp
      /\ connResp' = NoConnResp
      /\ UNCHANGED <<now, users, nKey, handedOut, nAcc, oauthStates, nState,
                     consumed>>
      /\ UNCHANGED <<vaultVars, publishVars, scheduleVars, keyVars, utilVars>>

\* callback, lines 119-130: load the Identity linked into, or create one
CallbackUpsert(c) ==
  LET st == cb[c].st
  IN  /\ cb[c].pc = "upsert"
      /\ IF st.userId # 0
         THEN /\ cb' = [cb EXCEPT ![c].pc = "finish", ![c].uid = st.userId,
                          ![c].doc = users[st.userId].linkedAccounts,
                          ![c].rawApiKey = RawApiKeyFor(st, nKey + 1)]
              /\ UNCHANGED <<users, nKey>>
         ELSE /\ Len(users) < MaxUsers
              /\ nKey' = nKey + 1
              /\ users' = Append(users,
                   [apiKeyHash |-> HashApiKey(nKey + 1), v |-> 0,
                    linkedAccounts |-> <<>>])
              /\ cb' = [cb EXCEPT ![c].pc = "finish",
                          ![c].uid = Len(users) + 1, ![c].doc = <<>>,
                          ![c].rawApiKey = RawApiKeyFor(st, nKey + 1),
                          ![c].created = Len(users) + 1]
      /\ resp' = NoResp
      /\ connResp' = NoConnResp
      /\ UNCHANGED <<now, handedOut, nAcc, oauthStates, nState, consumed>>
      /\ UNCHANGED <<vaultVars, publishVars, scheduleVars, keyVars, utilVars>>

\* callback, lines 132-165: dedup, push and save, delete the state, respond
CallbackFinish(c, dbOk, mode) ==
  LET l == cb[c]
      exists == Exists(l.doc, l.rq.platform, l.accountId)
      acc == NewLinkedAccount(nAcc + 1, l.rq.platform, l.accountId, l.grant,
                              l.expiresAt)
      saved == exists \/ (ValidAccount(acc) /\ dbOk)
      err == IF ~saved
             THEN PlainError(IF ValidAccount(acc) THEN "db_error"
                             ELSE "validation_failed")
             ELSE PlainError("invalid_url")
  IN  /\ l.pc = "finish"
      \* user.save() sends the push as a $push on the stored document
      /\ IF ~exists /\ saved
         THEN /\ users' = [users EXCEPT
                    ![l.uid].linkedAccounts = Append(@, acc),
                    ![l.uid].v = @ + 1]
              /\ nAcc' = nAcc + 1
         ELSE UNCHANGED <<users, nAcc>>
      /\ oauthStates' = IF saved THEN DeleteState(oauthStates, l.st)
                        ELSE oauthStates
      /\ IF saved /\ mode # "bad_url"
         THEN /\ resp' =
                   [kind |-> "ok", thrown |-> NoError,
                    sent |-> ErrorHandler(NoError), apiKey |-> l.rawApiKey,
                    platform |-> l.rq.platform, accountId |-> l.accountId,
                    rq |-> l.rq, found |-> TRUE,
                    hadUserId |-> l.st.userId # 0, created |-> l.created,
                    replay |-> l.replay]
              /\ consumed' = consumed \cup {<<l.st.state, l.st.platform>>}
              /\ handedOut' = handedOut \cup ({l.rawApiKey} \ {0})
         ELSE /\ resp' = ErrorResp(l, err)
              /\ UNCHANGED <<consumed, handedOut>>
      /\ cb' = [cb EXCEPT ![c] = IdleCb]
      /\ connResp' = NoConnResp
      /\ UNCHANGED <<now, nKey, nState>>
      /\ UNCHANGED <<vaultVars, publishVars, scheduleVars, keyVars, utilVars>>

\* the TTL monitor of the store removes the expired state records
Sweep ==
  /\ Expired(oauthStates, now) # {}
  /\ oauthStates' = oauthStates \ Expired(oauthStates, now)
  /\ resp' = NoResp
  /\ connResp' = NoConnResp
  /\ UNCHANGED <<now, users, nKey, handedOut, nAcc, nState, cb, consumed>>
  /\ UNCHANGED <<vaultVars, publishVars, scheduleVars, keyVars, utilVars>>

Tick ==
  /\ now + ClockStep <= MaxClock
  /\ now' = now + ClockStep
  /\ resp' = NoResp
  /\ connResp' = NoConnResp
  /\ UNCHANGED <<users, nKey, handedOut, nAcc, oauthStates, nState, cb,
                 consumed>>
  /\ UNCHANGED <<vaultVars, publishVars, scheduleVars, keyVars, utilVars>>

\* the locals of a publish_scheduled_post run: the job that triggered it, the
\* post loaded (its _id), the index of the target being processed, the
\* results object; loaded and attempted are history: the status the post had
\* when findById read it, and the targets gone through so far with the
\* outcome of each, whether a token was asked for and the adapter called
IdleDp == [pc |-> "idle", job |-> 0, id |-> 0, i |-> 0, results |-> <<>>,
           loaded |-> "", attempted |-> <<>>]
\* the locals of a cancelScheduledPost request: the caller, the post found
\* and the jobId it carried when read
\* the locals of createScheduledPost: the post it saved and the job it queued
IdleCr == [pc |-> "idle", id |-> 0, job |-> 0, scheduledFor |-> 0]
IdleCn == [pc |-> "idle", uid |-> 0, id |-> 0, jobId |-> 0]
\* the response of createScheduledPost or cancelScheduledPost: op names the
\* handler, id the post, body the request body of a create, at the instant
\* it was validated
NoSchedResp == [kind |-> "none", op |-> "", sent |-> ErrorHandler(NoError),
                status |-> 0, id |-> 0, scheduledFor |-> 0, at |-> 0,
                route |-> FALSE, raw |-> 0, posts |-> <<>>, uid |-> 0]

Init ==
  /\ now = 0
  /\ users = <<>>
  /\ nKey = 0
  /\ handedOut = {}
  /\ nAcc = 0
  /\ oauthStates = {}
  /\ nState = 0
  /\ connResp = NoConnResp
  /\ cb = [c \in Callers |-> IdleCb]
  /\ resp = NoResp
  /\ consumed = {}
  /\ vt = [c \in Callers |-> IdleVault]
  /\ vresp = NoVaultResp
  /\ nTok = 0
  /\ pm = IdlePm
  /\ presp = NoPubResp
  /\ nPub = 0
  /\ posts = <<>>
  /\ jobs = <<>>
  /\ dp = IdleDp
  /\ cn = IdleCn
  /\ sresp = NoSchedResp
  /\ kresp = NoKeyResp
  /\ nRegen = 0
  /\ cx = IdleCx
  /\ delivered = <<>>
  /\ cr = IdleCr

\* the apiKey a connect request may carry: none, a key some client was
\* given, or a value that is no Identity's key
LinkingKeys == {0, BogusKey} \cup handedOut

\* requests are served one at a time: one callback in flight, while connect
\* requests, the clock and the TTL monitor go on
Next ==
  \/ \E p \in ConnectPlatforms, k \in LinkingKeys, cfgOk \in BOOLEAN :
       Connect(p, k, cfgOk)
  \/ \E rq \in CallbackRequests :
       \E reply \in RepliesFor(rq) : CallbackBegin(1, rq, reply)
  \/ CallbackUpsert(1)
  \/ \E dbOk \in BOOLEAN, mode \in RedirectModes : CallbackFinish(1, dbOk, mode)
  \/ Sweep
  \/ Tick

vars == <<now, users, nKey, handedOut, nAcc, oauthStates, nState, connResp,
          cb, resp, consumed, vt, vresp, nTok, pm, presp, nPub, posts, jobs,
          dp, cn, sresp, kresp, nRegen, cx, delivered, cr>>

Spec == Init /\ [][Next]_vars

\* two callbacks in flight at once (two browser redirects racing); the
\* requests are well-formed and the store answers
RaceRequests ==
  { [platform |-> "twitter", hasCode |-> TRUE, state |-> t, hasError |-> FALSE] :
      t \in 1..MaxStates }
RaceReplies ==
  { [exchange |-> 200, profile |-> 200,
     grant |-> [access_token |-> 11, refresh_token |-> 21, expires_in |-> 3600],
     accountId |-> a] : a \in {1, 2} }

NextRace ==
  \/ \E k \in LinkingKeys \ {BogusKey} : Connect("twitter", k, TRUE)
  \/ \E c \in Callers, rq \in RaceRequests, reply \in RaceReplies :
       CallbackBegin(c, rq, reply)
  \/ \E c \in Callers : CallbackUpsert(c)
  \/ \E c \in Callers : CallbackFinish(c, TRUE, "json")

SpecRace == Init /\ [][NextRace]_vars

(* --------------------- claims on the connect flow --------------------- *)
InvalidState == AppError(<<"invalid_state">>, 400)

\* a well-formed callback request (code and state, no provider error) whose
\* (state, platform) had been consumed before it arrived has been answered
ReplayAnswered(r) ==
  r.kind # "none" /\ r.replay /\ r.rq.hasCode /\ ~r.rq.hasError

\* C3 (as claimed): a PKCE state record is single-use: every callback that
\* presents a state token (and platform) a callback has already completed
\* successfully with fails with the error invalid_state and leaves every
\* Identity and Linked Account as it was.
C3_ReplayFailsInvalidState ==
  [][ ReplayAnswered(resp') =>
        /\ resp'.kind = "error"
        /\ resp'.sent.code = <<"invalid_state">>
        /\ users' = users ]_vars

\* what holds of a replay: it never gets past the state lookup, invalid_state
\* is raised inside the handler, and no Identity changes
ReplayRejected ==
  [][ /\ \A c \in Callers : cb'[c].replay => cb'[c].pc = "idle"
      /\ ReplayAnswered(resp') =>
           /\ resp'.kind = "error"
           /\ resp'.thrown = InvalidState
           /\ users' = users ]_vars

\* C4 (as claimed): after any callback that found its state record, whether
\* it then succeeded or failed, that record is no longer in the store.
C4_StateDeletedOnFailureToo ==
  (resp.kind # "none" /\ resp.found) =>
     ~\E s \in oauthStates : s.state = resp.rq.state

\* C5 (as claimed): no callback gets past the state lookup with a record
\* whose 10-minute window has passed, whenever the TTL monitor runs.
C5_ExpiredStateUnusable ==
  [][ \A c \in Callers :
        (cb[c].pc = "idle" /\ cb'[c].pc = "upsert") =>
           now <= cb'[c].st.createdAt + StateTtlSeconds ]_vars

\* C6 (as claimed): in every reachable state, under every interleaving of
\* connects and callbacks, an Identity holds at most one Linked Account for a
\* given (platform, provider account id).
C6_OneAccountPerPair ==
  \A u \in 1..Len(users) :
    \A i, j \in 1..Len(users[u].linkedAccounts) :
      ( /\ users[u].linkedAccounts[i].platform = users[u].linkedAccounts[j].platform
        /\ users[u].linkedAccounts[i].accountId = users[u].linkedAccounts[j].accountId )
      => i = j

\* C7 (as claimed): a callback hands out a secret exactly when it created a
\* new Identity, which is exactly when the state record it found carried no
\* Identity reference; a callback linking into an existing Identity returns
\* none, and the linked summary names the platform of the callback.
C7_SecretIffCreated ==
  (resp.kind # "none" /\ resp.found) =>
     /\ (resp.apiKey # 0) <=> (resp.created # 0)
     /\ resp.hadUserId => resp.apiKey = 0
     /\ resp.kind = "ok" => resp.platform = resp.rq.platform

\* what holds of the callbacks that succeed: the secret is handed out exactly
\* by those that created the Identity, and it is that Identity's key
SecretOnSuccess ==
  resp.kind = "ok" =>
     /\ (resp.apiKey # 0) <=> (resp.created # 0)
     /\ (resp.created # 0) <=> ~resp.hadUserId
     /\ resp.apiKey # 0 =>
          VerifyApiKey(resp.apiKey, users[resp.created].apiKeyHash)
     /\ resp.platform = resp.rq.platform

(* ------------------------ the credential vault ------------------------ *)
VaultStep == 30
\* seconds one tick of the vault's clock advances
MaxVaultClock == 90
\* last instant of the vault's clock
MaxRefreshes == 2
\* refresh requests the provider answers in a run

\* mutant: the margin is left out
ExpSoonNoMargin(acc, t) == acc.expiresAt # <<>> /\ acc.expiresAt[1] <= t

\* acc.expiresAt && acc.expiresAt.getTime() <= Date.now() + 60 * 1000
ExpSoon(acc, t) ==
  acc.expiresAt # <<>> /\ acc.expiresAt[1] <= t + SafetyMarginSeconds

\* user.linkedAccounts.id(linkedAccountId): the index of the subdocument, 0 if
\* there is none
AccountIndex(doc, id) ==
  IF \E i \in 1..Len(doc) : doc[i].id = id
  THEN CHOOSE i \in 1..Len(doc) : doc[i].id = id
  ELSE 0

\* the adapters whose refreshToken throws 501 before any request is sent
NoRefreshGrant == {"facebook", "instagram"}

\* what the token endpoint answers a refresh request with: a failure, a body
\* without tokens, or a grant (with a rotated refresh token or none, with
\* expires_in or none)
RefreshReplies ==
  { [status |-> 200, tokens |-> TRUE, rotates |-> r, expires_in |-> e] :
      r \in BOOLEAN, e \in {0, 3600} }
  \cup { [status |-> st, tokens |-> FALSE, rotates |-> FALSE, expires_in |-> 0] :
           st \in {200, 400, 401} }
\* the body of the n-th answer: the tokens the provider issues are fresh
RefreshGrant(reply, n) ==
  IF reply.tokens
  THEN [access_token |-> 100 + n,
        refresh_token |-> IF reply.rotates THEN 200 + n ELSE 0,
        expires_in |-> reply.expires_in]
  ELSE NoGrant

\* ensureValidAccessToken, lines 132-138: the grant merged into the subdocument
MergeRefresh(acc, grant, refreshToken, t) ==
  LET newRefresh == IF grant.refresh_token # 0 THEN grant.refresh_token
                    ELSE refreshToken
  IN  [acc EXCEPT
         !.accessTokenEnc = Encrypt(grant.access_token),
         !.refreshTokenEnc = IF newRefresh # 0 THEN Encrypt(newRefresh) ELSE @,
         !.expiresAt = IF grant.expires_in # 0 THEN <<t + grant.expires_in>>
                       ELSE @]

\* user.save() after the merge: a $set of the paths modified since the load
StoreModified(stored, before, acc) ==
  [stored EXCEPT
     !.accessTokenEnc = IF acc.accessTokenEnc # before.accessTokenEnc
                        THEN acc.accessTokenEnc ELSE @,
     !.refreshTokenEnc = IF acc.refreshTokenEnc # before.refreshTokenEnc
                         THEN acc.refreshTokenEnc ELSE @,
     !.expiresAt = IF acc.expiresAt # before.expiresAt THEN acc.expiresAt ELSE @]

\* mutant: the new token is returned whatever became of the save
SaveOutcomeEager(saved, newAccess, platform, err) ==
  [kind |-> "ok", thrown |-> NoError, accessToken |-> newAccess]

\* ensureValidAccessToken, lines 142-148: `await user.save()` comes before the
\* return, and a failing save lands in the catch
SaveOutcome(saved, newAccess, platform, err) ==
  IF saved
  THEN [kind |-> "ok", thrown |-> NoError, accessToken |-> newAccess]
  ELSE [kind |-> "error", thrown |-> MapAxiosError(platform, err),
        accessToken |-> 0]

VaultResp(c, l, kind, thrown, token, called, http) ==
  [kind |-> kind, c |-> c, thrown |-> thrown, accessToken |-> token,
   called |-> called, http |-> http, uid |-> l.uid, idx |-> l.idx,
   before |-> l.before, loadedAt |-> l.loadedAt, grant |-> l.grant,
   grantAt |-> l.grantAt]

\* ensureValidAccessToken, lines 111-128: load, decrypt, decide
VaultLoad(c, userId, accId) ==
  LET found == userId \in 1..Len(users)
      doc == IF found THEN users[userId].linkedAccounts ELSE <<>>
      idx == AccountIndex(doc, accId)
      acc == IF idx # 0 THEN doc[idx] ELSE NoAccount
      accessToken == Decrypt(acc.accessTokenEnc)
      refreshToken == IF acc.refreshTokenEnc # <<>>
                      THEN Decrypt(acc.refreshTokenEnc) ELSE 0
      l == [IdleVault EXCEPT
              !.uid = userId, !.idx = idx,
              !.v = IF found THEN users[userId].v ELSE 0,
              !.acc = acc, !.before = acc, !.refreshToken = refreshToken,
              !.loadedAt = now]
      end(kind, e, tok) ==
        /\ vresp' = VaultResp(c, l, kind, e, tok, FALSE, FALSE)
        /\ UNCHANGED vt
  IN  /\ vt[c].pc = "idle"
      /\ IF ~found
         THEN end("error", AppError(<<"user_not_found">>, 404), 0)
         ELSE IF idx = 0
         THEN end("error", AppError(<<"linked_account_not_found">>, 404), 0)
         ELSE IF acc.platform \notin Platforms
         THEN end("error", AppError(<<"unsupported_platform">>, 400), 0)
         ELSE IF ~ExpSoon(acc, now)
         THEN end("ok", NoError, accessToken)
         ELSE IF refreshToken = 0
         THEN end("error", AppError(<<"token_expired">>, 401), 0)
         ELSE /\ vt' = [vt EXCEPT ![c] = [l EXCEPT !.pc = "refresh"]]
              /\ vresp' = NoVaultResp
      /\ UNCHANGED <<now, users, nTok, linkVars, publishVars, scheduleVars, keyVars, utilVars>>

\* ensureValidAccessToken, lines 130-140: adapter.refreshToken and the merge
VaultRefresh(c, reply) ==
  LET l == vt[c]
      platform == l.acc.platform
      refreshed == RefreshGrant(reply, nTok + 1)
      fail(e, http) ==
        /\ vresp' = VaultResp(c, l, "error", MapAxiosError(platform, e), 0,
                              TRUE, http)
        /\ vt' = [vt EXCEPT ![c] = IdleVault]
  IN  /\ l.pc = "refresh"
      /\ IF platform \in NoRefreshGrant
         THEN /\ fail(AppError(<<platform, "refresh_not_implemented">>, 501),
                      FALSE)
              /\ UNCHANGED nTok
         ELSE /\ nTok < MaxRefreshes
              /\ nTok' = nTok + 1
              /\ IF reply.status # 200
                 THEN fail(AxiosError(reply.status), TRUE)
                 ELSE /\ vt' = [vt EXCEPT ![c] =
                           [l EXCEPT
                              !.pc = "save",
                              !.acc = MergeRefresh(l.acc, refreshed,
                                                   l.refreshToken, now),
                              !.grant = refreshed, !.grantAt = now]]
                      /\ vresp' = NoVaultResp
      /\ UNCHANGED <<now, users, linkVars, publishVars, scheduleVars, keyVars, utilVars>>

\* ensureValidAccessToken, lines 142-148: user.save(), then return or throw.
\* The save validates the document, and its $set of an array element carries
\* the version the document was loaded with
VaultSave(c, dbOk) ==
  LET l == vt[c]
      valid == ValidAccount(l.acc)
      current == users[l.uid].v = l.v
      saved == valid /\ current /\ dbOk
      err == PlainError(IF ~valid THEN "validation_failed"
                        ELSE IF ~current THEN "version_error" ELSE "db_error")
      out == SaveOutcome(saved, l.grant.access_token, l.acc.platform, err)
  IN  /\ l.pc = "save"
      /\ users' = IF saved
                  THEN [users EXCEPT ![l.uid].linkedAccounts[l.idx] =
                          StoreModified(@, l.before, l.acc)]
                  ELSE users
      /\ vresp' = VaultResp(c, l, out.kind, out.thrown, out.accessToken,
                            TRUE, TRUE)
      /\ vt' = [vt EXCEPT ![c] = IdleVault]
      /\ UNCHANGED <<now, nTok, linkVars, publishVars, scheduleVars, keyVars, utilVars>>

VaultClock ==
  /\ now + VaultStep <= MaxVaultClock
  /\ now' = now + VaultStep
  /\ vresp' = NoVaultResp
  /\ UNCHANGED <<users, vt, nTok, linkVars, publishVars, scheduleVars, keyVars, utilVars>>

\* the Linked Accounts a callback may have stored: with or without a refresh
\* token, with no expiry, one 90 s after the start or one an hour after it
VaultPlatforms == {"twitter", "facebook"}
StoredExpiries == {<<>>, <<90>>, <<3600>>}
StoredAccounts ==
  { [id |-> 1, platform |-> p, accountId |-> 1, accessTokenEnc |-> Encrypt(11),
     refreshTokenEnc |-> r, expiresAt |-> e] :
      p \in VaultPlatforms, r \in {<<>>, Encrypt(21)}, e \in StoredExpiries }
\* the arguments of the calls: an Identity and a subdocument id, each either
\* the stored one or one that does not exist
VaultUserIds == {1, 2}
VaultAccountIds == {1, 2}

\* one Identity holding one Linked Account, as a first callback leaves it
InitVault ==
  /\ now = 0
  /\ \E a \in StoredAccounts :
       /\ users = <<[apiKeyHash |-> HashApiKey(1), v |-> 1,
                     linkedAccounts |-> <<a>>]>>
       /\ consumed = {<<1, a.platform>>}
  /\ nKey = 1
  /\ handedOut = {1}
  /\ nAcc = 1
  /\ oauthStates = {}
  /\ nState = 1
  /\ connResp = NoConnResp
  /\ cb = [c \in Callers |-> IdleCb]
  /\ resp = NoResp
  /\ vt = [c \in Callers |-> IdleVault]
  /\ vresp = NoVaultResp
  /\ nTok = 0
  /\ pm = IdlePm
  /\ presp = NoPubResp
  /\ nPub = 0
  /\ posts = <<>>
  /\ jobs = <<>>
  /\ dp = IdleDp
  /\ cn = IdleCn
  /\ sresp = NoSchedResp
  /\ kresp = NoKeyResp
  /\ nRegen = 0
  /\ cx = IdleCx
  /\ delivered = <<>>
  /\ cr = IdleCr

\* one call at a time, while the clock goes on
NextVault ==
  \/ \E u \in VaultUserIds, a \in VaultAccountIds : VaultLoad(1, u, a)
  \/ \E reply \in RefreshReplies : VaultRefresh(1, reply)
  \/ \E dbOk \in BOOLEAN : VaultSave(1, dbOk)
  \/ VaultClock

SpecVault == InitVault /\ [][NextVault]_vars

(* ------------------------- claims on the vault ------------------------ *)
\* the account a call loaded had, when it was loaded, a recorded expiry no
\* more than 60 seconds ahead
NearExpiry(r) ==
  r.before.expiresAt # <<>> /\ r.before.expiresAt[1] <= r.loadedAt + 60

\* a call that found its Linked Account has ended
VaultEnded(r) == r.kind # "none" /\ r.idx # 0

\* C8 (as claimed): the refresh of the adapter is called if and only if the
\* Linked Account has a recorded expiry no more than 60 seconds in the future.
C8_RefreshIffNearExpiry ==
  VaultEnded(vresp) => (vresp.called <=> NearExpiry(vresp))

\* C8 (amended): the refresh of the adapter is called if and only if the
\* Linked Account has a recorded expiry no more than 60 seconds in the future
\* and a stored refresh token; a near-expiry account without one fails with
\* token_expired and no call; when no expiry is recorded or it is further
\* away, the call returns the decrypted stored access token, calls nothing
\* and leaves the store unchanged.
C8_RefreshIffNearExpiryAndRefreshToken ==
  [][ VaultEnded(vresp') =>
        /\ vresp'.called <=>
             (NearExpiry(vresp') /\ vresp'.before.refreshTokenEnc # <<>>)
        /\ (NearExpiry(vresp') /\ vresp'.before.refreshTokenEnc = <<>>) =>
             /\ vresp'.kind = "error"
             /\ vresp'.thrown = AppError(<<"token_expired">>, 401)
             /\ ~vresp'.http
             /\ users' = users
        /\ ~NearExpiry(vresp') =>
             /\ vresp'.kind = "ok"
             /\ vresp'.accessToken = Decrypt(vresp'.before.accessTokenEnc)
             /\ ~vresp'.called /\ ~vresp'.http
             /\ users' = users ]_vars

\* an account whose expiry is still ahead, but within the margin, is refreshed
C8_Witness ==
  /\ vresp.kind = "ok" /\ vresp.called /\ vresp.http
  /\ vresp.before.expiresAt # <<>>
  /\ vresp.before.expiresAt[1] > vresp.loadedAt
  /\ vresp.before.expiresAt[1] <= vresp.loadedAt + 60

\* the Linked Account a call worked on, as the store holds it
StoredOf(r) == users[r.uid].linkedAccounts[r.idx]

\* a call has returned a token it obtained by a refresh
Refreshed(r) == r.kind = "ok" /\ r.called

\* C9 (as claimed): after a successful refresh the persisted Linked Account
\* holds the new access token encrypted, the expiry derived from the grant
\* (receipt time plus expires_in; none when the grant carries none, as for the
\* grant of a code exchange), and as refresh token the newly issued one if
\* there is one, else the one stored before; the token returned is the new one.
C9_RefreshPersisted ==
  Refreshed(vresp) =>
     /\ StoredOf(vresp).accessTokenEnc = Encrypt(vresp.grant.access_token)
     /\ StoredOf(vresp).expiresAt =
          IF vresp.grant.expires_in # 0
          THEN <<vresp.grantAt + vresp.grant.expires_in>> ELSE <<>>
     /\ StoredOf(vresp).refreshTokenEnc =
          IF vresp.grant.refresh_token # 0
          THEN Encrypt(vresp.grant.refresh_token)
          ELSE vresp.before.refreshTokenEnc
     /\ vresp.accessToken = vresp.grant.access_token

\* what holds after a successful refresh: the tokens are as claimed, and so
\* is the expiry when the grant carries expires_in; when it carries none the
\* expiry stored before stays
RefreshMerged ==
  Refreshed(vresp) =>
     /\ StoredOf(vresp).accessTokenEnc = Encrypt(vresp.grant.access_token)
     /\ StoredOf(vresp).expiresAt =
          IF vresp.grant.expires_in # 0
          THEN <<vresp.grantAt + vresp.grant.expires_in>>
          ELSE vresp.before.expiresAt
     /\ StoredOf(vresp).refreshTokenEnc =
          IF vresp.grant.refresh_token # 0
          THEN Encrypt(vresp.grant.refresh_token)
          ELSE vresp.before.refreshTokenEnc
     /\ vresp.accessToken = vresp.grant.access_token

\* C10: a refreshed access token reaches the caller only once the store holds
\* the Linked Account with that token and the expiry and refresh token merged
\* from the grant; a call whose grant arrived but whose save failed returns
\* no token, throws, and leaves the store as it was.
C10_PersistedBeforeReturned ==
  [][ (VaultEnded(vresp') /\ vresp'.called) =>
        /\ vresp'.accessToken # 0 =>
             /\ vresp'.accessToken = vresp'.grant.access_token
             /\ users'[vresp'.uid].linkedAccounts[vresp'.idx] =
                  MergeRefresh(vresp'.before, vresp'.grant,
                               Decrypt(vresp'.before.refreshTokenEnc),
                               vresp'.grantAt)
        /\ vresp'.kind = "ok" <=> vresp'.accessToken # 0
        /\ vresp'.kind = "error" => users' = users ]_vars

\* a grant with tokens arrived, the save failed, and the call threw
C10_Witness ==
  /\ vresp.kind = "error" /\ vresp.called /\ vresp.http
  /\ vresp.grant.access_token # 0
  /\ vresp.accessToken = 0
  /\ StoredOf(vresp) = vresp.before

\* two calls in flight on the same Linked Account (two publishes racing); the
\* arguments name the stored Identity and account
NextVaultRace ==
  \/ \E c \in Callers : VaultLoad(c, 1, 1)
  \/ \E c \in Callers, reply \in RefreshReplies : VaultRefresh(c, reply)
  \/ \E c \in Callers, dbOk \in BOOLEAN : VaultSave(c, dbOk)
  \/ VaultClock

SpecVaultRace == InitVault /\ [][NextVaultRace]_vars

\* the number of the grant an encrypted access token came from (0 for the
\* token of the code exchange): the provider issues 100 + n as n-th grant
GrantNo(enc) == IF Decrypt(enc) >= 100 THEN Decrypt(enc) - 100 ELSE 0

\* call c sends its refresh request in this step
SendsRefresh(c) ==
  /\ vt[c].pc = "refresh" /\ vt'[c].pc # "refresh"
  /\ vt[c].acc.platform \notin NoRefreshGrant

\* the refresh token call c holds has been rotated by the grant of another
\* call, persisted or still to be saved
RotatedByOther(c) ==
  \/ \E d \in Callers \ {c} :
       /\ vt[d].pc = "save" /\ vt[d].grant.refresh_token # 0
       /\ vt[d].refreshToken = vt[c].refreshToken
  \/ Decrypt(users[vt[c].uid].linkedAccounts[vt[c].idx].refreshTokenEnc)
       # vt[c].refreshToken

\* C11 (as claimed): with two calls racing on a near-expiry Linked Account,
\* the persisted tokens are always those of the last refresh that succeeded
\* (a save never puts back the tokens of an older grant), no refresh is sent
\* with a refresh token another call's grant has already rotated, and a call
\* that returns a refreshed token returns the one the store then holds.
C11_ConcurrentRefreshSafe ==
  [][ /\ GrantNo(users'[1].linkedAccounts[1].accessTokenEnc) >=
           GrantNo(users[1].linkedAccounts[1].accessTokenEnc)
      /\ \A c \in Callers : SendsRefresh(c) => ~RotatedByOther(c)
      /\ (vresp'.kind = "ok" /\ vresp'.called) =>
           GrantNo(users'[1].linkedAccounts[1].accessTokenEnc) = nTok ]_vars

(* ----------------------- multi-target publish -------------------------- *)
MaxTargets == 3
\* targets in the body of one postMulti request
MaxRequests == 1
\* postMulti requests of a run

\* an outcome stored in the results object: { ok, result } or { ok, error }
Published == [ok |-> TRUE, code |-> <<>>]
Failed(code) == [ok |-> FALSE, code |-> code]

\* postMulti, line 138: accountId ? `${platform}:${accountId}` : platform
TargetKey(target) ==
  IF target.accountId # 0 THEN <<target.platform, target.accountId>>
  ELSE <<target.platform>>

\* results[key] = outcome on a JavaScript object: an existing key keeps its
\* place and takes the new value, a new key is added at the end
SetResult(results, key, outcome) ==
  IF \E k \in 1..Len(results) : results[k].key = key
  THEN [k \in 1..Len(results) |->
          IF results[k].key = key THEN [key |-> key, outcome |-> outcome]
          ELSE results[k]]
  ELSE Append(results, [key |-> key, outcome |-> outcome])

\* postMulti, lines 140-170: the Linked Account a target names, or the code of
\* the resolution error recorded for it
Resolve(doc, target) ==
  LET idx == AccountIndex(doc, target.accountId)
      matches == {k \in 1..Len(doc) : doc[k].platform = target.platform}
  IN  IF target.platform \notin Platforms
      THEN [idx |-> 0, code |-> <<"unsupported_platform">>]
      ELSE IF target.accountId # 0
      THEN IF idx = 0
           THEN [idx |-> 0, code |-> <<"linked_account_not_found">>]
           ELSE IF doc[idx].platform # target.platform
           THEN [idx |-> 0, code |-> <<"platform_mismatch">>]
           ELSE [idx |-> idx, code |-> <<>>]
      ELSE IF matches = {}
      THEN [idx |-> 0, code |-> <<"no_linked_account">>]
      ELSE IF Cardinality(matches) > 1
      THEN [idx |-> 0, code |-> <<"account_required">>]
      ELSE [idx |-> CHOOSE k \in matches : TRUE, code |-> <<>>]

\* ensureValidAccessToken run to its end on the account acc: the error thrown
\* (NoError when a token is returned), the subdocument as persisted, and
\* whether the adapter sent a refresh request
ValidToken(acc, t, reply, n, dbOk) ==
  LET refreshToken == IF acc.refreshTokenEnc # <<>>
                      THEN Decrypt(acc.refreshTokenEnc) ELSE 0
      merged == MergeRefresh(acc, RefreshGrant(reply, n), refreshToken, t)
      out == SaveOutcome(ValidAccount(merged) /\ dbOk,
                         RefreshGrant(reply, n).access_token, acc.platform,
                         PlainError("save_failed"))
  IN  IF ~ExpSoon(acc, t)
      THEN [thrown |-> NoError, acc |-> acc, http |-> FALSE]
      ELSE IF refreshToken = 0
      THEN [thrown |-> AppError(<<"token_expired">>, 401), acc |-> acc,
            http |-> FALSE]
      ELSE IF acc.platform \in NoRefreshGrant
      THEN [thrown |-> MapAxiosError(acc.platform,
                         AppError(<<acc.platform, "refresh_not_implemented">>, 501)),
            acc |-> acc, http |-> FALSE]
      ELSE IF reply.status # 200
      THEN [thrown |-> MapAxiosError(acc.platform, AxiosError(reply.status)),
            acc |-> acc, http |-> TRUE]
      ELSE [thrown |-> out.thrown,
            acc |-> IF out.kind = "ok" THEN merged ELSE acc, http |-> TRUE]

\* postMulti, lines 172-191: token, then adapter.post or publishImage; the
\* catch maps whatever was thrown and stores it as the outcome of the target
Attempt(platform, token, hasMedia, postStatus) ==
  LET thrown ==
        IF token.thrown # NoError THEN token.thrown
        ELSE IF platform = "instagram" /\ ~hasMedia
        THEN AppError(<<"instagram_media_required">>, 400)
        ELSE IF postStatus # 200 THEN AxiosError(postStatus)
        ELSE NoError
  IN  IF thrown = NoError THEN Published
      ELSE Failed(MapAxiosError(platform, thrown).code)

\* mutant: the loop is left at the first failed outcome
BreakOnFailure(i, n, outcome) == IF outcome.ok THEN i + 1 ELSE n + 1

\* postMulti, line 136: for (const reqAccount of value.accounts); every
\* `continue` and the catch of line 189 lead to the next target
Continue(i, n, outcome) == i + 1

\* the targets a body may name: by subdocument id or by platform alone
PublishTargets ==
  { [platform |-> "twitter", accountId |-> 1],
    [platform |-> "twitter", accountId |-> 0],
    [platform |-> "facebook", accountId |-> 2],
    [platform |-> "facebook", accountId |-> 0],
    [platform |-> "twitter", accountId |-> 2],
    [platform |-> "linkedin", accountId |-> 0],
    [platform |-> "youtube", accountId |-> 9],
    [platform |-> "instagram", accountId |-> 4] }

RECURSIVE TargetLists(_)
TargetLists(n) ==
  IF n = 0 THEN {<<>>}
  ELSE TargetLists(n - 1) \cup
       { Append(l, t) : l \in {m \in TargetLists(n - 1) : Len(m) = n - 1},
                        t \in PublishTargets }

\* the bodies of a run: accounts, whether content is a non-empty string, and
\* whether media[0] is given
PublishBodies ==
  { [accounts |-> l, contentOk |-> TRUE, hasMedia |-> m] :
      l \in TargetLists(MaxTargets), m \in BOOLEAN }
  \cup { [accounts |-> <<[platform |-> "twitter", accountId |-> 1]>>,
          contentOk |-> FALSE, hasMedia |-> FALSE] }

\* what the providers and the store answer while one target is attempted
PublishEnvs ==
  { [reply |-> r, dbOk |-> d, post |-> st] :
      r \in { [status |-> 200, tokens |-> TRUE, rotates |-> TRUE,
               expires_in |-> 3600],
              [status |-> 400, tokens |-> FALSE, rotates |-> FALSE,
               expires_in |-> 0] },
      d \in BOOLEAN, st \in {200, 401, 429} }

\* postMulti, lines 119-133: validation of the body (the Identity is the one
\* apiKeyAuth resolved)
PostMultiBegin(body) ==
  /\ pm.pc = "idle"
  /\ nPub < MaxRequests
  /\ nPub' = nPub + 1
  /\ IF body.accounts = <<>> \/ ~body.contentOk
     THEN /\ presp' = [kind |-> "error", op |-> "multi",
                       thrown |-> AppError(<<"validation_error">>, 400),
                       sent |-> ErrorHandler(AppError(<<"validation_error">>, 400)),
                       targets |-> body.accounts, results |-> <<>>,
                       attempted |-> <<>>]
          /\ UNCHANGED pm
     ELSE /\ pm' = [pc |-> "loop", targets |-> body.accounts, i |-> 1,
                    results |-> <<>>, attempted |-> <<>>,
                    hasMedia |-> body.hasMedia]
          /\ presp' = NoPubResp
  /\ UNCHANGED <<now, users, linkVars, vaultVars, scheduleVars, keyVars, utilVars>>

\* the Identity apiKeyAuth resolved for the requests of a run
PublishUser == 1

\* postMulti, lines 136-192: one pass of the loop, on the target at index i
PostMultiTarget(env) ==
  LET target == pm.targets[pm.i]
      key == TargetKey(target)
      doc == users[PublishUser].linkedAccounts
      r == Resolve(doc, target)
      token == ValidToken(doc[r.idx], now, env.reply, nTok + 1, env.dbOk)
      outcome == IF r.idx = 0 THEN Failed(r.code)
                 ELSE Attempt(target.platform, token, pm.hasMedia, env.post)
  IN  /\ pm.pc = "loop"
      /\ pm.i <= Len(pm.targets)
      /\ IF r.idx # 0
         THEN /\ users' = [users EXCEPT
                    ![PublishUser].linkedAccounts[r.idx] = token.acc]
              /\ IF token.http
                 THEN nTok < MaxRefreshes /\ nTok' = nTok + 1
                 ELSE UNCHANGED nTok
         ELSE UNCHANGED <<users, nTok>>
      /\ pm' = [pm EXCEPT
                  !.results = SetResult(@, key, outcome),
                  !.attempted = Append(@, [target |-> target, key |-> key,
                                           outcome |-> outcome]),
                  !.i = Continue(pm.i, Len(pm.targets), outcome)]
      /\ presp' = NoPubResp
      /\ UNCHANGED <<now, linkVars, vt, vresp, nPub, scheduleVars, keyVars, utilVars>>

\* postMulti, line 194: res.json({ ok: true, results })
PostMultiRespond ==
  /\ pm.pc = "loop"
  /\ pm.i > Len(pm.targets)
  /\ presp' = [kind |-> "ok", op |-> "multi", thrown |-> NoError,
               sent |-> ErrorHandler(NoError),
               targets |-> pm.targets, results |-> pm.results,
               attempted |-> pm.attempted]
  /\ pm' = IdlePm
  /\ UNCHANGED <<now, users, linkVars, vaultVars, nPub, scheduleVars, keyVars, utilVars>>

\* the status of the AppError postSingle throws for a resolution failure
\* (lines 73-78)
ResolveStatus(code) ==
  IF code = <<"linked_account_not_found">> THEN 404 ELSE 400

\* postSingle, lines 105-109: the catch maps whatever was thrown through the
\* mapAxiosError of the route's adapter, when the route names an adapter
CatchSingle(platform, err) ==
  IF platform \in Platforms THEN MapAxiosError(platform, err) ELSE err

\* the routes and bodies of postSingle: /post/:platform with or without an
\* accountId in the body
SingleTargets ==
  PublishTargets \cup {[platform |-> "myspace", accountId |-> 0]}

\* postSingle, lines 60-110: adapter, validation, choice of the Linked
\* Account, token, adapter.post or publishImage, and the answer
PostSingle(target, contentOk, hasMedia, env) ==
  LET platform == target.platform
      doc == users[PublishUser].linkedAccounts
      r == Resolve(doc, target)
      asked == platform \in Platforms /\ contentOk /\ r.idx # 0
      token == ValidToken(doc[r.idx], now, env.reply, nTok + 1, env.dbOk)
      before ==
        IF platform \notin Platforms
        THEN AppError(<<"unsupported_platform">>, 400)
        ELSE IF ~contentOk THEN AppError(<<"validation_error">>, 400)
        ELSE IF r.idx = 0 THEN AppError(r.code, ResolveStatus(r.code))
        ELSE IF token.thrown # NoError THEN token.thrown
        ELSE IF platform = "instagram" /\ ~hasMedia
        THEN AppError(<<"instagram_media_required">>, 400)
        ELSE NoError
      called == before = NoError
      thrown == IF ~called THEN before
                ELSE IF env.post # 200 THEN AxiosError(env.post) ELSE NoError
      outcome == IF thrown = NoError THEN Published
                 ELSE Failed(CatchSingle(platform, thrown).code)
  IN  /\ pm.pc = "idle"
      /\ nPub < MaxRequests
      /\ nPub' = nPub + 1
      /\ IF asked
         THEN /\ users' = [users EXCEPT
                    ![PublishUser].linkedAccounts[r.idx] = token.acc]
              /\ IF token.http
                 THEN nTok < MaxRefreshes /\ nTok' = nTok + 1
                 ELSE UNCHANGED nTok
         ELSE UNCHANGED <<users, nTok>>
      /\ presp' = [kind |-> IF thrown = NoError THEN "ok" ELSE "error",
                   op |-> "single", thrown |-> thrown,
                   sent |-> IF thrown = NoError THEN ErrorHandler(NoError)
                            ELSE ErrorHandler(CatchSingle(platform, thrown)),
                   targets |-> <<target>>, results |-> <<>>,
                   attempted |-> IF called
                                 THEN <<[target |-> target,
                                         key |-> TargetKey(target),
                                         outcome |-> outcome]>>
                                 ELSE <<>>]
      /\ UNCHANGED <<now, linkVars, vt, vresp, pm, scheduleVars, keyVars, utilVars>>

\* one Identity with a twitter, two facebook and an instagram account, as four
\* callbacks leave it; the twitter and instagram tokens may be near expiry
InitPublish ==
  /\ now = 0
  /\ \E e1, e4 \in {<<>>, <<30>>} :
       users = <<[apiKeyHash |-> HashApiKey(1), v |-> 4,
                  linkedAccounts |->
                    << [id |-> 1, platform |-> "twitter", accountId |-> 1,
                        accessTokenEnc |-> Encrypt(11),
                        refreshTokenEnc |-> Encrypt(21), expiresAt |-> e1],
                       [id |-> 2, platform |-> "facebook", accountId |-> 2,
                        accessTokenEnc |-> Encrypt(12),
                        refreshTokenEnc |-> <<>>, expiresAt |-> <<>>],
                       [id |-> 3, platform |-> "facebook", accountId |-> 3,
                        accessTokenEnc |-> Encrypt(13),
                        refreshTokenEnc |-> <<>>, expiresAt |-> <<>>],
                       [id |-> 4, platform |-> "instagram", accountId |-> 4,
                        accessTokenEnc |-> Encrypt(14),
                        refreshTokenEnc |-> <<>>, expiresAt |-> e4] >>]>>
  /\ nKey = 1
  /\ handedOut = {1}
  /\ nAcc = 4
  /\ oauthStates = {}
  /\ nState = 4
  /\ consumed = {<<1, "twitter">>, <<2, "facebook">>, <<3, "facebook">>,
                 <<4, "instagram">>}
  /\ connResp = NoConnResp
  /\ cb = [c \in Callers |-> IdleCb]
  /\ resp = NoResp
  /\ vt = [c \in Callers |-> IdleVault]
  /\ vresp = NoVaultResp
  /\ nTok = 0
  /\ pm = IdlePm
  /\ presp = NoPubResp
  /\ nPub = 0
  /\ posts = <<>>
  /\ jobs = <<>>
  /\ dp = IdleDp
  /\ cn = IdleCn
  /\ sresp = NoSchedResp
  /\ kresp = NoKeyResp
  /\ nRegen = 0
  /\ cx = IdleCx
  /\ delivered = <<>>
  /\ cr = IdleCr

NextPublish ==
  \/ \E body \in PublishBodies : PostMultiBegin(body)
  \/ \E env \in PublishEnvs : PostMultiTarget(env)
  \/ PostMultiRespond
  \/ \E target \in SingleTargets, contentOk, hasMedia \in BOOLEAN,
        env \in PublishEnvs : PostSingle(target, contentOk, hasMedia, env)

SpecPublish == InitPublish /\ [][NextPublish]_vars

(* ------------------- claims on multi-target publish ------------------- *)
\* the outcome stored under a key of a results object
Lookup(results, key) ==
  results[CHOOSE k \in 1..Len(results) : results[k].key = key].outcome

\* C1: once the body has passed validation, the targets are gone through one
\* by one in the order of the list, whatever the outcome of the earlier ones:
\* each pass handles the next target and stores its outcome, failed or not,
\* under its key; the loop is left only after the last target, and the call
\* then answers with the results object, never with an error.
C1_EveryTargetAttempted ==
  [][ /\ (pm.pc = "loop" /\ pm' # pm /\ pm'.pc = "loop") =>
           /\ pm'.i = pm.i + 1
           /\ pm'.targets = pm.targets
           /\ Len(pm'.attempted) = pm.i
           /\ pm'.attempted[pm.i].target = pm.targets[pm.i]
           /\ \E k \in 1..Len(pm'.results) :
                /\ pm'.results[k].key = TargetKey(pm.targets[pm.i])
                /\ pm'.results[k].outcome = pm'.attempted[pm.i].outcome
      /\ (pm.pc = "loop" /\ pm'.pc = "idle") =>
           /\ Len(pm.attempted) = Len(pm.targets)
           /\ presp'.kind = "ok"
           /\ presp'.results = pm.results
           /\ \A k \in 1..Len(pm.targets) :
                presp'.attempted[k].target = pm.targets[k]
      /\ presp'.kind = "error" => (pm.pc = "idle" /\ pm'.pc = "idle") ]_vars

\* three targets, the second failed at the provider or at the token, the
\* first and the third published
C1_Witness ==
  /\ presp.kind = "ok"
  /\ Len(presp.attempted) = 3
  /\ presp.attempted[1].outcome.ok
  /\ ~presp.attempted[2].outcome.ok
  /\ presp.attempted[2].outcome.code \notin
       { <<"linked_account_not_found">>, <<"platform_mismatch">>,
         <<"no_linked_account">>, <<"account_required">> }
  /\ presp.attempted[3].outcome.ok
  /\ Len(presp.results) = 3

\* C2 (as claimed): no two targets of one call share a key, and the results
\* object returned has exactly one entry per requested target, each holding
\* the outcome of that target.
C2_OneEntryPerTarget ==
  presp.kind = "ok" =>
     /\ \A i, j \in 1..Len(presp.targets) :
          TargetKey(presp.targets[i]) = TargetKey(presp.targets[j]) => i = j
     /\ Len(presp.results) = Len(presp.targets)
     /\ \A i \in 1..Len(presp.attempted) :
          Lookup(presp.results, presp.attempted[i].key) =
            presp.attempted[i].outcome

\* what holds of the keys: the key of a target is platform:accountId when an
\* account id is given and the platform otherwise, and every key attempted
\* has an entry in the results
KeysAsStated ==
  presp.kind = "ok" =>
     \A i \in 1..Len(presp.attempted) :
        /\ presp.attempted[i].key =
             IF presp.targets[i].accountId # 0
             THEN <<presp.targets[i].platform, presp.targets[i].accountId>>
             ELSE <<presp.targets[i].platform>>
        /\ \E k \in 1..Len(presp.results) :
             presp.results[k].key = presp.attempted[i].key

(* ------------------------- scheduled publish -------------------------- *)
MaxPosts == 1
\* Scheduled Publish Intents a run creates
MaxSchedTargets == 2
\* targets in the body of one schedule request
MaxTriggers == 2
\* times the job queue hands one job to the Dispatcher (at-least-once)
ScheduleStep == 60
\* seconds one tick of the scheduler's clock advances (processEvery)
MaxScheduleClock == 120
\* last instant of the scheduler's clock

\* models/ScheduledPost.js, line 34: the values the status path accepts
StatusEnum == {"pending", "processing", "published", "failed", "canceled"}

\* mutant: the current instant is accepted as scheduledFor
DateGreaterOrEqual(value, limit) == value >= limit

\* Joi.date().greater('now'), line 14 of the schedule controller
DateGreater(value, limit) == value > limit

\* cancelScheduledPost, line 61: post.status !== 'pending' throws
Cancelable(status) == status = "pending"

\* publish_scheduled_post, line 23: the only status the run stops on
Skipped(status) == status = "canceled"

\* publish_scheduled_post, line 43: const key = `${platform}:${accountId}`
DispatchKey(target) == <<target.platform, target.accountId>>

\* publish_scheduled_post, lines 47-52: getAdapter(platform), then
\* user.linkedAccounts.id(accountId); the platform of the subdocument found
\* is not compared with the target's
DispatchResolve(doc, target) ==
  LET idx == AccountIndex(doc, target.accountId)
  IN  IF target.platform \notin Platforms
      THEN [idx |-> 0, code |-> <<"Unsupported platform">>]
      ELSE IF idx = 0
      THEN [idx |-> 0, code |-> <<"Linked account not found or deleted">>]
      ELSE [idx |-> idx, code |-> <<>>]

\* publish_scheduled_post, lines 55-82: token, then publishImage or post of
\* the target's adapter; the catch stores err.message (here: the code of the
\* error the adapter or the vault threw)
DispatchAttempt(platform, token, hasMedia, postStatus) ==
  LET thrown ==
        IF token.thrown # NoError THEN token.thrown
        ELSE IF platform = "instagram" /\ ~hasMedia
        THEN PlainError("Instagram requires an image")
        ELSE IF postStatus # 200
        THEN MapAxiosError(platform, AxiosError(postStatus))
        ELSE NoError
  IN  IF thrown = NoError THEN Published ELSE Failed(thrown.code)

\* publish_scheduled_post, lines 86-90: the final status from the results
AllFailed(results) == \A k \in 1..Len(results) : ~results[k].outcome.ok
SomeFailed(results) == \E k \in 1..Len(results) : ~results[k].outcome.ok
FinalStatus(results) ==
  IF AllFailed(results) THEN "failed"
  ELSE IF SomeFailed(results) THEN "partial" ELSE "published"

\* the targets a schedule request may name, by the _id of a Linked Account:
\* a twitter and a facebook account of the caller, the facebook account under
\* the platform twitter, and an _id no account of the caller has
ScheduleTargets ==
  { [platform |-> "twitter", accountId |-> 1],
    [platform |-> "facebook", accountId |-> 2],
    [platform |-> "twitter", accountId |-> 2],
    [platform |-> "twitter", accountId |-> 9] }

RECURSIVE ScheduleLists(_)
ScheduleLists(n) ==
  IF n = 0 THEN {<<>>}
  ELSE ScheduleLists(n - 1) \cup
       { Append(l, t) : l \in {m \in ScheduleLists(n - 1) : Len(m) = n - 1},
                        t \in ScheduleTargets }

ScheduleTimes == {0, ScheduleStep, 2 * ScheduleStep}

\* the bodies of a run: accounts, whether content is a non-empty string,
\* whether media[0] is given, and scheduledFor
ScheduleBodies ==
  { [accounts |-> l, contentOk |-> TRUE, hasMedia |-> FALSE,
     scheduledFor |-> t] :
      l \in ScheduleLists(MaxSchedTargets), t \in ScheduleTimes }
  \cup { [accounts |-> <<[platform |-> "twitter", accountId |-> 1]>>,
          contentOk |-> FALSE, hasMedia |-> FALSE,
          scheduledFor |-> 2 * ScheduleStep] }

\* what the provider answers while one target is attempted
ScheduleEnvs ==
  { [reply |-> [status |-> 200, tokens |-> TRUE, rotates |-> TRUE,
                expires_in |-> 3600],
     dbOk |-> TRUE, post |-> st] : st \in {200, 401} }

\* the Identities apiKeyAuth resolves for the schedule requests of a run
ScheduleUsers == {1, 2}

SchedResp(kind, op, err, status, id, body) ==
  [kind |-> kind, op |-> op, sent |-> ErrorHandler(err), status |-> status,
   id |-> id, scheduledFor |-> body.scheduledFor, at |-> now,
   route |-> FALSE, raw |-> 0, posts |-> <<>>, uid |-> 0]

\* createScheduledPost, lines 17-43: validate, save the post as pending,
\* agenda.schedule, save the jobId; queueOk tells whether agenda.schedule
\* resolved
CreateScheduledPost(uid, body, queueOk) ==
  LET valid == /\ body.accounts # <<>>
               /\ body.contentOk
               /\ DateGreater(body.scheduledFor, now)
      id == Len(posts) + 1
      job == Len(jobs) + 1
      post == [userId |-> uid, accounts |-> body.accounts,
               hasMedia |-> body.hasMedia, scheduledFor |-> body.scheduledFor,
               status |-> "pending", jobId |-> 0, result |-> <<>>,
               error |-> <<>>]
  IN  /\ Len(posts) < MaxPosts
      /\ IF ~valid
         THEN /\ sresp' = SchedResp("error", "create",
                            AppError(<<"validation_error">>, 400), 400, 0, body)
              /\ UNCHANGED <<posts, jobs>>
         ELSE IF ~queueOk
         THEN /\ posts' = Append(posts, post)
              /\ sresp' = SchedResp("error", "create",
                            PlainError("agenda_schedule_failed"), 500, id, body)
              /\ UNCHANGED jobs
         ELSE /\ posts' = Append(posts, [post EXCEPT !.jobId = job])
              /\ jobs' = Append(jobs, [postId |-> id,
                                       nextRunAt |-> body.scheduledFor,
                                       removed |-> FALSE, finished |-> FALSE,
                                       runs |-> 0])
              /\ sresp' = SchedResp("ok", "create", NoError, 201, id, body)
      /\ UNCHANGED <<now, users, linkVars, vaultVars, publishVars, keyVars, utilVars, cr, delivered, dp, cn>>

NoBody == [scheduledFor |-> 0]

\* mutant: the queries of list and cancel do not filter by owner
OwnedByAnyone(post, uid) == TRUE

\* the userId condition of ScheduledPost.find({ userId: req.user._id }) (line
\* 47) and of findOne({ _id, userId: req.user._id }) (line 58)
OwnedBy(post, uid) == post.userId = uid

\* cancelScheduledPost, lines 58-63: findOne({ _id, userId }) and the check
\* of the status read
CancelBegin(uid, id) ==
  LET found == id \in 1..Len(posts) /\ OwnedBy(posts[id], uid)
      \* uid: the Identity the answer goes to
      answer(r) == sresp' = [r EXCEPT !.uid = uid]
  IN  /\ cn.pc = "idle"
      /\ IF ~found
         THEN /\ answer(SchedResp("error", "cancel",
                          AppError(<<"post_not_found">>, 404), 404, id, NoBody))
              /\ UNCHANGED cn
         ELSE IF ~Cancelable(posts[id].status)
         THEN /\ answer(SchedResp("error", "cancel",
                          AppError(<<"post_not_pending">>, 400), 400, id,
                          NoBody))
              /\ UNCHANGED cn
         ELSE /\ cn' = [pc |-> "cancel", uid |-> uid, id |-> id,
                        jobId |-> posts[id].jobId]
              /\ sresp' = NoSchedResp
      /\ UNCHANGED <<now, users, linkVars, vaultVars, publishVars, keyVars, utilVars, cr, delivered, posts, jobs,
                     dp>>

\* cancelScheduledPost, lines 65-72: agenda.cancel removes the job document,
\* then status = 'canceled' is saved.  mongoose.Types.ObjectId is called
\* without `new`, which recent builds of the driver reject with a TypeError:
\* idOk tells whether the build accepts the call
CancelFinish(idOk) ==
  /\ cn.pc = "cancel"
  /\ IF cn.jobId # 0 /\ ~idOk
     THEN /\ sresp' = SchedResp("error", "cancel", PlainError("TypeError"), 500,
                                cn.id, NoBody)
          /\ UNCHANGED <<posts, jobs>>
     ELSE /\ jobs' = [j \in 1..Len(jobs) |->
                        IF j = cn.jobId THEN [jobs[j] EXCEPT !.removed = TRUE]
                        ELSE jobs[j]]
          /\ posts' = [posts EXCEPT ![cn.id].status = "canceled"]
          /\ sresp' = SchedResp("ok", "cancel", NoError, 200, cn.id, NoBody)
  /\ cn' = IdleCn
  /\ UNCHANGED <<now, users, linkVars, vaultVars, publishVars, keyVars, utilVars, cr, delivered, dp>>

\* the job queue hands job j to publish_scheduled_post (lines 13-26): the job
\* is due, not removed and not recorded as finished; findById and the check
\* of the status.  acked tells whether the queue records the end of a run
\* that returns here (a worker that dies first leaves the job to be handed
\* out again)
DispatchBegin(j, acked) ==
  LET id == jobs[j].postId
  IN  /\ dp.pc = "idle"
      /\ j \in 1..Len(jobs)
      /\ ~jobs[j].removed /\ ~jobs[j].finished
      /\ jobs[j].nextRunAt <= now
      /\ jobs[j].runs < MaxTriggers
      /\ IF id \notin 1..Len(posts) \/ Skipped(posts[id].status)
         THEN /\ jobs' = [jobs EXCEPT ![j].runs = @ + 1, ![j].finished = acked]
              /\ UNCHANGED dp
         ELSE /\ jobs' = [jobs EXCEPT ![j].runs = @ + 1]
              /\ dp' = [pc |-> "mark", job |-> j, id |-> id, i |-> 1,
                        results |-> <<>>, loaded |-> posts[id].status,
                        attempted |-> <<>>]
      /\ sresp' = NoSchedResp
      /\ UNCHANGED <<now, users, linkVars, vaultVars, publishVars, keyVars, utilVars, cr, delivered, posts, cn>>

\* publish_scheduled_post, lines 28-39: status = 'processing' is saved, then
\* the user is loaded
DispatchMark(acked) ==
  /\ dp.pc = "mark"
  /\ IF posts[dp.id].userId \notin 1..Len(users)
     THEN /\ posts' = [posts EXCEPT ![dp.id].status = "failed",
                                    ![dp.id].error = <<"User not found">>]
          /\ jobs' = [jobs EXCEPT ![dp.job].finished = acked]
          /\ dp' = IdleDp
     ELSE /\ posts' = [posts EXCEPT ![dp.id].status = "processing"]
          /\ dp' = [dp EXCEPT !.pc = "loop"]
          /\ UNCHANGED jobs
  /\ sresp' = NoSchedResp
  /\ UNCHANGED <<now, users, linkVars, vaultVars, publishVars, keyVars, utilVars, cr, delivered, cn>>

\* publish_scheduled_post, lines 41-83: one pass of the loop, on the target
\* at index i of the accounts the run loaded
DispatchTarget(env) ==
  LET post == posts[dp.id]
      target == post.accounts[dp.i]
      key == DispatchKey(target)
      doc == users[post.userId].linkedAccounts
      r == DispatchResolve(doc, target)
      token == ValidToken(doc[r.idx], now, env.reply, nTok + 1, env.dbOk)
      outcome == IF r.idx = 0 THEN Failed(r.code)
                 ELSE DispatchAttempt(target.platform, token, post.hasMedia,
                                      env.post)
  IN  /\ dp.pc = "loop"
      /\ dp.i <= Len(post.accounts)
      /\ IF r.idx # 0
         THEN /\ users' = [users EXCEPT
                    ![post.userId].linkedAccounts[r.idx] = token.acc]
              /\ IF token.http
                 THEN nTok < MaxRefreshes /\ nTok' = nTok + 1
                 ELSE UNCHANGED nTok
         ELSE UNCHANGED <<users, nTok>>
      /\ dp' = [dp EXCEPT
                  !.results = SetResult(@, key, outcome),
                  !.attempted = Append(@,
                     [target |-> target, key |-> key, outcome |-> outcome,
                      tokenAsked |-> r.idx # 0,
                      adapterCalled |-> r.idx # 0 /\ token.thrown = NoError]),
                  !.i = @ + 1]
      /\ delivered' = IF outcome.ok
                      THEN Append(delivered,
                             [id |-> dp.id, i |-> dp.i, key |-> key,
                              run |-> jobs[dp.job].runs, interrupted |-> FALSE])
                      ELSE delivered
      /\ sresp' = NoSchedResp
      /\ UNCHANGED <<now, linkVars, vt, vresp, publishVars, keyVars, utilVars, cr, posts, jobs, cn>>

\* publish_scheduled_post, lines 85-95: result, status and error are set and
\* the post is saved; the save validates status against the enum of the
\* schema and throws, persisting nothing, when it is not a member
DispatchFinish(acked) ==
  LET status == FinalStatus(dp.results)
  IN  /\ dp.pc = "loop"
      /\ dp.i > Len(posts[dp.id].accounts)
      /\ IF status \in StatusEnum
         THEN posts' = [posts EXCEPT
                  ![dp.id].status = status,
                  ![dp.id].result = dp.results,
                  ![dp.id].error = IF AllFailed(dp.results)
                                   THEN <<"All targets failed">> ELSE @]
         ELSE UNCHANGED posts
      /\ jobs' = [jobs EXCEPT ![dp.job].finished = acked]
      /\ dp' = IdleDp
      /\ sresp' = NoSchedResp
      /\ UNCHANGED <<now, users, linkVars, vaultVars, publishVars, keyVars, utilVars, cr, delivered, cn>>

ScheduleClock ==
  /\ now < MaxScheduleClock
  /\ now' = now + ScheduleStep
  /\ sresp' = NoSchedResp
  /\ UNCHANGED <<users, linkVars, vaultVars, publishVars, keyVars, utilVars, cr, delivered, posts, jobs, dp, cn>>

\* two Identities; the first has linked a twitter and a facebook account whose
\* tokens do not expire
InitSchedule ==
  /\ now = 0
  /\ users = <<[apiKeyHash |-> HashApiKey(1), v |-> 2,
                linkedAccounts |->
                  << [id |-> 1, platform |-> "twitter", accountId |-> 1,
                      accessTokenEnc |-> Encrypt(11),
                      refreshTokenEnc |-> Encrypt(21), expiresAt |-> <<>>],
                     [id |-> 2, platform |-> "facebook", accountId |-> 2,
                      accessTokenEnc |-> Encrypt(12),
                      refreshTokenEnc |-> <<>>, expiresAt |-> <<>>] >>],
               [apiKeyHash |-> HashApiKey(2), v |-> 0,
                linkedAccounts |-> <<>>]>>
  /\ nKey = 2
  /\ handedOut = {1, 2}
  /\ nAcc = 2
  /\ oauthStates = {}
  /\ nState = 2
  /\ consumed = {<<1, "twitter">>, <<2, "facebook">>}
  /\ connResp = NoConnResp
  /\ cb = [c \in Callers |-> IdleCb]
  /\ resp = NoResp
  /\ vt = [c \in Callers |-> IdleVault]
  /\ vresp = NoVaultResp
  /\ nTok = 0
  /\ pm = IdlePm
  /\ presp = NoPubResp
  /\ nPub = 0
  /\ posts = <<>>
  /\ jobs = <<>>
  /\ dp = IdleDp
  /\ cn = IdleCn
  /\ sresp = NoSchedResp
  /\ kresp = NoKeyResp
  /\ nRegen = 0
  /\ cx = IdleCx
  /\ delivered = <<>>
  /\ cr = IdleCr

\* schedule requests and the run of the Dispatcher interleave at every await
NextSchedule ==
  \/ \E u \in ScheduleUsers, body \in ScheduleBodies, queueOk \in BOOLEAN :
       CreateScheduledPost(u, body, queueOk)
  \/ \E u \in ScheduleUsers, id \in 1..MaxPosts : CancelBegin(u, id)
  \/ \E idOk \in BOOLEAN : CancelFinish(idOk)
  \/ \E j \in 1..MaxPosts, acked \in BOOLEAN : DispatchBegin(j, acked)
  \/ \E acked \in BOOLEAN : DispatchMark(acked)
  \/ \E env \in ScheduleEnvs : DispatchTarget(env)
  \/ \E acked \in BOOLEAN : DispatchFinish(acked)
  \/ ScheduleClock

SpecSchedule == InitSchedule /\ [][NextSchedule]_vars

(* --------------------- claims on scheduled publish -------------------- *)
\* the statuses the state machine of an intent ends in
Ended == {"published", "partial", "failed", "canceled"}

\* the status changes the state machine of an intent allows
AllowedEdges ==
  { <<"pending", "processing">>, <<"pending", "canceled">> }
  \cup { <<"processing", s>> : s \in {"published", "partial", "failed"} }

\* C12 (as claimed): the status of an intent changes only along pending ->
\* processing, processing -> published | partial | failed and pending ->
\* canceled; in particular no step changes a status that is published,
\* partial, failed or canceled.
C12_StatusFollowsStateMachine ==
  [][ \A id \in 1..Len(posts) :
        posts'[id].status # posts[id].status =>
          <<posts[id].status, posts'[id].status>> \in AllowedEdges ]_vars

\* the status the outcomes of a run add up to
Aggregate(attempted) ==
  IF \A k \in 1..Len(attempted) : attempted[k].outcome.ok THEN "published"
  ELSE IF \A k \in 1..Len(attempted) : ~attempted[k].outcome.ok THEN "failed"
  ELSE "partial"

\* the Dispatcher's run ends in this step, after the loop over the targets
RunEnds == dp.pc = "loop" /\ dp'.pc = "idle"

\* C13 (as claimed): when a run over at least one target ends, the persisted
\* status is published if every outcome is ok, failed if none is and partial
\* otherwise, and the persisted result holds the outcome of each target.
C13_FinalStatusAggregates ==
  [][ (RunEnds /\ dp.attempted # <<>>) =>
        /\ posts'[dp.id].status = Aggregate(dp.attempted)
        /\ \A k \in 1..Len(dp.attempted) :
             \E e \in 1..Len(posts'[dp.id].result) :
               /\ posts'[dp.id].result[e].key = dp.attempted[k].key
               /\ posts'[dp.id].result[e].outcome = dp.attempted[k].outcome
    ]_vars

\* job j is handed to the Dispatcher in this step
Triggered(j) == j \in 1..Len(jobs) /\ jobs'[j].runs > jobs[j].runs

\* C14 (as claimed): a trigger delivered for an intent that is published,
\* partial, failed or canceled is a no-op: the run stops at once, and no step
\* of a run that found the intent in such a status publishes a target or
\* changes the intent.
C14_TriggerOnEndedIsNoOp ==
  [][ /\ \A j \in 1..MaxPosts :
           (Triggered(j) /\ posts[jobs[j].postId].status \in Ended) =>
             (dp'.pc = "idle" /\ posts' = posts)
      /\ (dp.pc # "idle" /\ dp.loaded \in Ended) =>
           (posts' = posts /\ dp'.attempted = dp.attempted) ]_vars

\* a target of intent id is published in this step
PublishesTargetOf(id) ==
  /\ dp.pc = "loop" /\ dp.id = id
  /\ Len(dp'.attempted) > Len(dp.attempted)
  /\ dp'.attempted[Len(dp'.attempted)].outcome.ok

\* C15 (as claimed): under every interleaving of a cancel request and the
\* trigger, once the cancel has succeeded (the status canceled is persisted)
\* the status stays canceled, so processing never starts, and no target of
\* the intent is published.
C15_CanceledStaysCanceled ==
  [][ \A id \in 1..Len(posts) :
        posts[id].status = "canceled" =>
          (posts'[id].status = "canceled" /\ ~PublishesTargetOf(id)) ]_vars

InvalidStateTransition == [status |-> 400, code |-> <<"post_not_pending">>]

\* C16 (as claimed): a cancel request succeeds only on an intent whose
\* status is pending, and then the status is canceled; on an intent of the
\* caller in any other status it is answered InvalidStateTransition
\* (post_not_pending, 400) and changes neither the intent nor the job queue.
C16_CancelOnlyPending ==
  [][ /\ (sresp'.op = "cancel" /\ sresp'.kind = "ok") =>
           /\ posts[sresp'.id].status = "pending"
           /\ posts'[sresp'.id].status = "canceled"
      /\ \A id \in 1..Len(posts) :
           ( /\ cn.pc = "idle" /\ sresp'.op = "cancel" /\ sresp'.id = id
             /\ sresp'.status # 404 /\ posts[id].status # "pending" ) =>
               /\ sresp'.sent = InvalidStateTransition
               /\ posts' = posts /\ jobs' = jobs ]_vars

\* what holds of C16: a request goes on to cancel only if the status it read
\* was pending, and one that read another status is answered
\* post_not_pending and changes nothing
CancelRefusedUnlessPending ==
  [][ /\ (cn.pc = "idle" /\ cn'.pc = "cancel") =>
           posts[cn'.id].status = "pending"
      /\ \A id \in 1..Len(posts) :
           ( /\ cn.pc = "idle" /\ sresp'.op = "cancel" /\ sresp'.id = id
             /\ sresp'.status # 404 /\ posts[id].status # "pending" ) =>
               /\ sresp'.sent = InvalidStateTransition
               /\ posts' = posts /\ jobs' = jobs ]_vars

\* C17: a create request succeeds only when scheduledFor is strictly after
\* the instant of the request, and then one intent is persisted, with status
\* pending; a request whose scheduledFor is at or before that instant is
\* answered validation_error (400), persists no intent and queues no job.
C17_CreateOnlyFuture ==
  [][ sresp'.op = "create" =>
        /\ sresp'.kind = "ok" =>
             /\ sresp'.scheduledFor > now
             /\ Len(posts') = Len(posts) + 1
             /\ posts'[sresp'.id].status = "pending"
             /\ posts'[sresp'.id].scheduledFor = sresp'.scheduledFor
        /\ sresp'.scheduledFor <= now =>
             /\ sresp'.sent = [status |-> 400, code |-> <<"validation_error">>]
             /\ posts' = posts /\ jobs' = jobs ]_vars

\* an intent created after the clock has advanced, for a later instant
C17_Witness ==
  /\ sresp.op = "create" /\ sresp.kind = "ok" /\ sresp.at > 0
  /\ posts[sresp.id].status = "pending"
  /\ posts[sresp.id].scheduledFor > sresp.at
  /\ jobs[posts[sresp.id].jobId].nextRunAt = posts[sresp.id].scheduledFor

\* the failure the last target gone through must have got, if resolution
\* fails on it: <<>> when the target names a Linked Account of its platform
ResolutionFailure(doc, target, notFound) ==
  LET idx == AccountIndex(doc, target.accountId)
  IN  IF target.accountId = 0 THEN <<>>
      ELSE IF idx = 0 THEN notFound
      ELSE IF doc[idx].platform # target.platform THEN <<"platform_mismatch">>
      ELSE <<>>

\* C18 (as claimed): in postMulti and in the Dispatcher, a target whose
\* account id names no Linked Account of the Identity gets the failure
\* LinkedAccountNotFound and one whose Linked Account is of another platform
\* gets PlatformMismatch, and for neither is a token asked for or an
\* adapter called.
C18_ResolutionFailuresPerTarget ==
  [][ /\ (dp.pc = "loop" /\ Len(dp'.attempted) > Len(dp.attempted)) =>
           LET a == dp'.attempted[Len(dp'.attempted)]
               f == ResolutionFailure(
                      users[posts[dp.id].userId].linkedAccounts, a.target,
                      <<"Linked account not found or deleted">>)
           IN  f # <<>> => /\ a.outcome = Failed(f)
                           /\ ~a.tokenAsked /\ ~a.adapterCalled
      /\ (pm.pc = "loop" /\ Len(pm'.attempted) > Len(pm.attempted)) =>
           LET a == pm'.attempted[Len(pm'.attempted)]
               f == ResolutionFailure(users[PublishUser].linkedAccounts,
                                      a.target, <<"linked_account_not_found">>)
           IN  f # <<>> => /\ a.outcome = Failed(f)
                           /\ users' = users /\ nTok' = nTok ]_vars

\* what holds of C18: postMulti records linked_account_not_found or
\* platform_mismatch for such a target and touches neither the vault nor an
\* adapter
ResolutionFailuresInPostMulti ==
  [][ (pm.pc = "loop" /\ Len(pm'.attempted) > Len(pm.attempted)) =>
        LET a == pm'.attempted[Len(pm'.attempted)]
            f == ResolutionFailure(users[PublishUser].linkedAccounts,
                                   a.target, <<"linked_account_not_found">>)
        IN  f # <<>> => /\ a.outcome = Failed(f)
                        /\ users' = users /\ nTok' = nTok /\ vt' = vt ]_vars

(* ------------------------- keys of an Identity ------------------------ *)
MaxIdentities == 5001
\* Identities stored in the larger of the stores a run starts from
MaxRegenerations == 1
\* key regenerations of a run

MissingSecret == [status |-> 401, code |-> <<"missing_api_key">>]
InvalidSecret == [status |-> 401, code |-> <<"invalid_api_key">>]

KeyResp(kind, op, err, raw, uid, apiKey) ==
  [kind |-> kind, op |-> op, sent |-> ErrorHandler(err), raw |-> raw,
   uid |-> uid, apiKey |-> apiKey, linkedAccountId |-> 0]

\* apiKeyAuth, lines 5-22: what it passes to next(), NoError when req.user
\* has been set
AuthError(us, raw) ==
  IF raw = 0 THEN AppError(<<"missing_api_key">>, 401)
  ELSE IF ResolveApiKey(us, raw) = 0 THEN AppError(<<"invalid_api_key">>, 401)
  ELSE NoError

\* a request to a route behind apiKeyAuth, up to the end of the middleware
ApiKeyAuth(raw) ==
  LET err == AuthError(users, raw)
  IN  /\ kresp' = IF err = NoError
                  THEN KeyResp("ok", "auth", NoError, raw,
                               ResolveApiKey(users, raw), 0)
                  ELSE KeyResp("error", "auth", err, raw, 0, 0)
      /\ connResp' = NoConnResp
      /\ resp' = NoResp
      /\ UNCHANGED <<now, users, nKey, handedOut, nAcc, oauthStates, nState,
                     cb, consumed, vaultVars, publishVars, scheduleVars,
                     nRegen, utilVars>>

\* mutant: the new hash is computed but the document is not saved
RekeyNotSaved(user, hash) == user

\* regenerate, lines 11-12: req.user.apiKeyHash is set and the document
\* saved; the save writes the one modified path
Rekey(user, hash) == [user EXCEPT !.apiKeyHash = hash]

\* POST /regenerate-key: apiKeyAuth, then regenerate (keyController.js,
\* lines 8-17); generateApiKey is fresh: key nKey + 1
Regenerate(raw, dbOk) ==
  LET err == AuthError(users, raw)
      uid == ResolveApiKey(users, raw)
      rawApiKey == nKey + 1
  IN  /\ nRegen < MaxRegenerations
      /\ nRegen' = nRegen + 1
      /\ IF err # NoError
         THEN /\ kresp' = KeyResp("error", "regenerate", err, raw, 0, 0)
              /\ UNCHANGED <<users, nKey, handedOut>>
         ELSE IF ~dbOk
         THEN /\ kresp' = KeyResp("error", "regenerate",
                                  PlainError("save_failed"), raw, uid, 0)
              /\ nKey' = nKey + 1
              /\ UNCHANGED <<users, handedOut>>
         ELSE /\ users' = [users EXCEPT
                             ![uid] = Rekey(@, HashApiKey(rawApiKey))]
              /\ nKey' = nKey + 1
              /\ handedOut' = handedOut \cup {rawApiKey}
              /\ kresp' = KeyResp("ok", "regenerate", NoError, raw, uid,
                                  rawApiKey)
      /\ connResp' = NoConnResp
      /\ resp' = NoResp
      /\ UNCHANGED <<now, nAcc, oauthStates, nState, cb, consumed, vaultVars,
                     publishVars, scheduleVars, utilVars>>

\* the sizes of the stores a run starts from
StoredIdentities == {2, MaxIdentities}

\* the key of the i-th Identity of the initial store
InitialKey(i) == BogusKey + i

\* a store of n Identities, each with its own key; the first has linked a
\* twitter account and scheduled an intent.  The clients of the run hold the
\* keys of the first and of the last Identity
InitKeys ==
  /\ now = 0
  /\ \E n \in StoredIdentities :
       /\ users = [i \in 1..n |->
                     [apiKeyHash |-> HashApiKey(InitialKey(i)), v |-> 0,
                      linkedAccounts |->
                        IF i = 1
                        THEN << [id |-> 1, platform |-> "twitter",
                                 accountId |-> 1,
                                 accessTokenEnc |-> Encrypt(11),
                                 refreshTokenEnc |-> Encrypt(21),
                                 expiresAt |-> <<>>] >>
                        ELSE <<>>]]
       /\ nKey = InitialKey(n)
       /\ handedOut = {InitialKey(1), InitialKey(n)}
  /\ nAcc = 1
  /\ oauthStates = {}
  /\ nState = 0
  /\ consumed = {}
  /\ connResp = NoConnResp
  /\ cb = [c \in Callers |-> IdleCb]
  /\ resp = NoResp
  /\ vt = [c \in Callers |-> IdleVault]
  /\ vresp = NoVaultResp
  /\ nTok = 0
  /\ pm = IdlePm
  /\ presp = NoPubResp
  /\ nPub = 0
  /\ posts = <<[userId |-> 1,
                accounts |-> <<[platform |-> "twitter", accountId |-> 1]>>,
                hasMedia |-> FALSE, scheduledFor |-> ScheduleStep,
                status |-> "pending", jobId |-> 1, result |-> <<>>,
                error |-> <<>>]>>
  /\ jobs = <<[postId |-> 1, nextRunAt |-> ScheduleStep, removed |-> FALSE,
               finished |-> FALSE, runs |-> 0]>>
  /\ dp = IdleDp
  /\ cn = IdleCn
  /\ sresp = NoSchedResp
  /\ kresp = NoKeyResp
  /\ nRegen = 0
  /\ cx = IdleCx
  /\ delivered = <<>>
  /\ cr = IdleCr

NextKeys ==
  \/ \E raw \in LinkingKeys : ApiKeyAuth(raw)
  \/ \E raw \in LinkingKeys, dbOk \in BOOLEAN : Regenerate(raw, dbOk)
  \/ \E k \in LinkingKeys : Connect("twitter", k, TRUE)

SpecKeys == InitKeys /\ [][NextKeys]_vars

(* ------------------- claims on the keys of an Identity ---------------- *)
\* the Identities whose current secret is raw
Owners(us, raw) == {i \in 1..Len(us) : us[i].apiKeyHash = HashApiKey(raw)}

\* the Identity a connect request that got through was bound to
BoundTo == {s.userId : s \in oauthStates' \ oauthStates}

\* C19 (as claimed): however many Identities are stored, the current secret
\* of an Identity resolves to exactly that Identity, in apiKeyAuth and in
\* connect's lookup, and a value that is no Identity's current secret fails
\* with InvalidSecret (invalid_api_key, 401).
C19_SecretResolvesToItsIdentity ==
  [][ /\ (kresp'.op = "auth" /\ kresp'.raw # 0) =>
           /\ \A i \in Owners(users, kresp'.raw) :
                kresp'.kind = "ok" /\ kresp'.uid = i
           /\ Owners(users, kresp'.raw) = {} => kresp'.sent = InvalidSecret
      /\ ( /\ connResp'.kind # "none" /\ connResp'.apiKey # 0
           /\ connResp'.platform \in Platforms ) =>
           /\ \A i \in Owners(users, connResp'.apiKey) :
                connResp'.sent # InvalidSecret /\ BoundTo = {i}
           /\ Owners(users, connResp'.apiKey) = {} =>
                connResp'.sent = InvalidSecret ]_vars

\* what holds of C19: as long as no more than ScanLimit Identities are
\* stored, apiKeyAuth resolves every current secret to its Identity and
\* rejects every other value
ResolvesWithinScanLimit ==
  [][ (Len(users) <= ScanLimit /\ kresp'.op = "auth" /\ kresp'.raw # 0) =>
        /\ \A i \in Owners(users, kresp'.raw) :
             kresp'.kind = "ok" /\ kresp'.uid = i
        /\ Owners(users, kresp'.raw) = {} => kresp'.sent = InvalidSecret
    ]_vars

\* C20: when a key regeneration succeeds, the secret presented no longer
\* resolves to any Identity, the secret returned resolves to the Identity
\* that presented the old one, and that Identity's Linked Accounts and the
\* scheduled intents are as before.
C20_RegenerationSwapsSecret ==
  [][ (kresp'.op = "regenerate" /\ kresp'.kind = "ok") =>
        /\ ResolveApiKey(users, kresp'.raw) = kresp'.uid
        /\ ResolveApiKey(users', kresp'.raw) = 0
        /\ Owners(users', kresp'.raw) = {}
        /\ ResolveApiKey(users', kresp'.apiKey) = kresp'.uid
        /\ users'[kresp'.uid].linkedAccounts = users[kresp'.uid].linkedAccounts
        /\ Len(users') = Len(users)
        /\ posts' = posts /\ jobs' = jobs ]_vars

\* the Identity that holds a Linked Account and an intent has regenerated
\* its key
C20_Witness ==
  /\ kresp.op = "regenerate" /\ kresp.kind = "ok" /\ kresp.uid = 1
  /\ users[1].linkedAccounts # <<>>
  /\ users[1].apiKeyHash = HashApiKey(kresp.apiKey)
  /\ \E id \in 1..Len(posts) : posts[id].userId = 1

(* ------------------ further claims on the connect flow ---------------- *)
\* one Identity that linked a facebook account through state 1 and holds its
\* key, as a callback leaves it
InitLinked ==
  /\ now = 0
  /\ users = <<[apiKeyHash |-> HashApiKey(1), v |-> 1,
                linkedAccounts |->
                  << [id |-> 1, platform |-> "facebook", accountId |-> 1,
                      accessTokenEnc |-> Encrypt(11),
                      refreshTokenEnc |-> <<>>, expiresAt |-> <<>>] >>]>>
  /\ nKey = 1
  /\ handedOut = {1}
  /\ nAcc = 1
  /\ oauthStates = {}
  /\ nState = 1
  /\ consumed = {<<1, "facebook">>}
  /\ connResp = NoConnResp
  /\ cb = [c \in Callers |-> IdleCb]
  /\ resp = NoResp
  /\ vt = [c \in Callers |-> IdleVault]
  /\ vresp = NoVaultResp
  /\ nTok = 0
  /\ pm = IdlePm
  /\ presp = NoPubResp
  /\ nPub = 0
  /\ posts = <<>>
  /\ jobs = <<>>
  /\ dp = IdleDp
  /\ cn = IdleCn
  /\ sresp = NoSchedResp
  /\ kresp = NoKeyResp
  /\ nRegen = 0
  /\ cx = IdleCx
  /\ delivered = <<>>
  /\ cr = IdleCr

SpecLinked == InitLinked /\ [][Next]_vars

AnsweredAtOnce == (\A c \in Callers : cb[c].pc = "idle") /\ resp'.kind # "none"

\* the answer is to a well-formed request (code and state, no provider error)
\* on a supported platform whose (state, platform) pair is in no state record
UnknownState(r) ==
  /\ r.rq.platform \in Platforms /\ r.rq.hasCode /\ r.rq.state # 0
  /\ ~r.rq.hasError
  /\ FindState(oauthStates, r.rq.state, r.rq.platform) = NoState

\* C22 (as claimed): a callback whose (state, platform) pair matches no state
\* record (a token issued for another platform, or never issued) fails with
\* the code invalid_state, after no code exchange and with every Identity as
\* it was.
C22_UnknownStateFailsInvalidState ==
  [][ (AnsweredAtOnce /\ UnknownState(resp')) =>
        /\ resp'.kind = "error"
        /\ resp'.sent = [status |-> 400, code |-> <<"invalid_state">>]
        /\ ~resp'.found
        /\ users' = users /\ nKey' = nKey ]_vars

\* what holds of C22: invalid_state is raised inside the handler before the
\* code exchange, and no Identity changes
UnknownStateRejected ==
  [][ (AnsweredAtOnce /\ UnknownState(resp')) =>
        /\ resp'.kind = "error"
        /\ resp'.thrown = InvalidState
        /\ ~resp'.found
        /\ users' = users /\ nKey' = nKey ]_vars

\* the answer is to a request on a supported platform in which the provider
\* reported an error
ProviderError(r) == r.rq.platform \in Platforms /\ r.rq.hasError

\* C23 (as claimed): a callback in which the provider reports an error, with
\* or without a code, fails with the code oauth_error, after no code exchange
\* and with every Identity as it was.
C23_ProviderErrorFailsOAuthError ==
  [][ (resp'.kind # "none" /\ ProviderError(resp')) =>
        /\ resp'.kind = "error"
        /\ resp'.sent = [status |-> 400, code |-> <<"oauth_error">>]
        /\ ~resp'.found
        /\ users' = users /\ nKey' = nKey ]_vars

\* what holds of C23: the request is refused before the state lookup, with
\* oauth_error raised inside the handler when code and state are present and
\* validation_error when one is missing, and no Identity changes
ProviderErrorRejected ==
  [][ (resp'.kind # "none" /\ ProviderError(resp')) =>
        /\ resp'.kind = "error"
        /\ resp'.thrown =
             IF resp'.rq.hasCode /\ resp'.rq.state # 0
             THEN AppError(<<"oauth_error">>, 400)
             ELSE AppError(<<"validation_error">>, 400)
        /\ ~resp'.found
        /\ users' = users /\ nKey' = nKey ]_vars

\* ---------------------------------------------------------------------------
\* further claims on the vault
\* ---------------------------------------------------------------------------

\* the Linked Account of a call cannot be refreshed: no refresh token is
\* stored, or the adapter of its platform has no refresh grant
CannotRefresh(r) ==
  r.before.refreshTokenEnc = <<>> \/ r.before.platform \in NoRefreshGrant

\* C24 (as claimed): for a near-expiry Linked Account that has no stored
\* refresh token, or whose provider has no refresh capability (Facebook and
\* Instagram), the call fails with token_expired (401), returns no access
\* token and changes nothing in the Linked Account.
C24_NoRefreshFailsTokenExpired ==
  [][ (VaultEnded(vresp') /\ NearExpiry(vresp') /\ CannotRefresh(vresp')) =>
        /\ vresp'.kind = "error"
        /\ vresp'.thrown = AppError(<<"token_expired">>, 401)
        /\ vresp'.accessToken = 0
        /\ users' = users ]_vars

\* what holds for such an account: the call fails, returns no token and
\* leaves the store alone; the error is token_expired when no refresh token
\* is stored, and otherwise what mapAxiosError makes of the adapter's
\* "refresh not implemented"
NoRefreshFails ==
  [][ (VaultEnded(vresp') /\ NearExpiry(vresp') /\ CannotRefresh(vresp')) =>
        /\ vresp'.kind = "error"
        /\ vresp'.accessToken = 0
        /\ ~vresp'.http
        /\ users' = users
        /\ vresp'.thrown =
             IF vresp'.before.refreshTokenEnc = <<>>
             THEN AppError(<<"token_expired">>, 401)
             ELSE MapAxiosError(vresp'.before.platform,
                    AppError(<<vresp'.before.platform,
                               "refresh_not_implemented">>, 501)) ]_vars

\* the provider's refresh call of caller c has failed in this step: the call
\* was waiting for the provider's answer and ends on an HTTP error
RefreshCallFailed(c) ==
  /\ vt[c].pc = "refresh"
  /\ vresp'.kind # "none" /\ vresp'.c = c /\ vresp'.http

\* C25 (as claimed): when the provider's refresh call fails, the call fails
\* with an error of kind token_refresh_failed, returns no access token, and
\* leaves the persisted Linked Account as it was before the call.
C25_RefreshFailureIsTokenRefreshFailed ==
  [][ \A c \in Callers :
        RefreshCallFailed(c) =>
          /\ vresp'.kind = "error"
          /\ vresp'.thrown.code = <<"token_refresh_failed">>
          /\ vresp'.accessToken = 0
          /\ users' = users ]_vars

\* what holds when the provider's refresh call fails: the call fails with
\* the adapter's mapAxiosError of the provider's answer, returns no access
\* token, and the store is as it was
RefreshFailureMapped ==
  [][ \A c \in Callers :
        RefreshCallFailed(c) =>
          /\ vresp'.kind = "error"
          /\ vresp'.thrown.code \in
               { <<vt[c].acc.platform, k>> :
                   k \in {"auth_failed", "rate_limited", "api_error"} }
          /\ vresp'.accessToken = 0
          /\ users' = users ]_vars

\* ---------------------------------------------------------------------------
\* further claims on publishing
\* ---------------------------------------------------------------------------

\* the fatal errors of a single-target publish the claim names, as thrown
FatalBeforePublish ==
  { AppError(<<"linked_account_not_found">>, 404),
    AppError(<<"platform_mismatch">>, 400),
    AppError(<<"account_required">>, 400),
    AppError(<<"token_expired">>, 401) }

\* C26 (as claimed): a single-target publish reports the first fatal error to
\* the caller under that error's own kind and status (linked_account_not_found,
\* platform_mismatch, account_required when several accounts match and no
\* accountId is given, token_expired), and makes no adapter publish call.
C26_SingleSurfacesFirstFatalError ==
  (presp.op = "single" /\ presp.thrown \in FatalBeforePublish) =>
     /\ presp.kind = "error"
     /\ presp.sent = [status |-> presp.thrown.status, code |-> presp.thrown.code]
     /\ presp.attempted = <<>>

\* what holds for these errors: the request fails and no adapter publish call
\* is made, but the caller receives what mapAxiosError makes of an error
\* without a provider response, `${platform}_api_error` with status 502
SingleFatalMasked ==
  (presp.op = "single" /\ presp.thrown \in FatalBeforePublish) =>
     /\ presp.kind = "error"
     /\ presp.sent = [status |-> 502,
                      code |-> <<presp.targets[1].platform, "api_error">>]
     /\ presp.attempted = <<>>

\* ---------------------------------------------------------------------------
\* the crypto utilities: a token is encrypted, stored and decrypted again
\* ---------------------------------------------------------------------------

\* encrypt(plainText), as the callback and the refresh call it before a save
EncryptCall(plainText, iv) ==
  /\ cx' = [op |-> "encrypt", plainText |-> plainText,
            enc |-> encrypt(plainText, iv), out |-> Returned(<<>>)]
  /\ UNCHANGED <<now, users, linkVars, vaultVars, publishVars, scheduleVars,
                 keyVars>>

\* decrypt(enc) of the value stored last, as ensureValidAccessToken calls it
DecryptCall ==
  /\ cx.op = "encrypt"
  /\ cx' = [cx EXCEPT !.op = "decrypt", !.out = decrypt(cx.enc)]
  /\ UNCHANGED <<now, users, linkVars, vaultVars, publishVars, scheduleVars,
                 keyVars>>

NextCrypto ==
  \/ \E plainText \in PlainTexts(MaxPlainLen), iv \in RandomIvs :
       EncryptCall(plainText, iv)
  \/ DecryptCall

SpecCrypto == Init /\ [][NextCrypto]_vars

RecordsOf(states, tok, platform) ==
  {s \in states : s.state = tok /\ s.platform = platform}

\* C28: challengeFromVerifier is a function of the verifier alone; for every
\* successful connect the code_challenge of the returned URL is
\* challengeFromVerifier of the verifier stored in the record of the state of
\* that URL; and a callback that finds the record passes its verifier to the
\* adapter's code exchange.
C28_PkceRoundTrip ==
  [][ /\ (connResp'.kind = "ok" /\ nState' # nState) =>
           /\ Cardinality(RecordsOf(oauthStates', connResp'.state,
                                    connResp'.platform)) = 1
           /\ \A s \in RecordsOf(oauthStates', connResp'.state,
                                 connResp'.platform) :
                connResp'.challenge = ChallengeFromVerifier(s.codeVerifier)
      /\ \A c \in Callers :
           (cb[c].pc = "idle" /\ cb'[c].pc = "upsert") =>
             /\ RecordsOf(oauthStates, cb'[c].rq.state, cb'[c].rq.platform)
                  # {}
             /\ \A s \in RecordsOf(oauthStates, cb'[c].rq.state,
                                   cb'[c].rq.platform) :
                  /\ cb'[c].codeVerifier = s.codeVerifier
                  /\ ChallengeFromVerifier(cb'[c].codeVerifier) =
                       ChallengeFromVerifier(s.codeVerifier) ]_vars

\* a callback has exchanged its code with the verifier of a stored record
C28_Witness ==
  \E c \in Callers :
    /\ cb[c].pc = "upsert"
    /\ cb[c].codeVerifier # 0
    /\ cb[c].codeVerifier = cb[c].st.codeVerifier
    /\ cb[c].st.state = cb[c].rq.state

\* ---------------------------------------------------------------------------
\* scheduled publish: interrupted runs and progress
\* ---------------------------------------------------------------------------

\* the worker dies while publish_scheduled_post runs (lines 28-94): its
\* locals are lost, the post stays as last saved, and the job, never
\* recorded as finished, is handed out again by a later poll
DispatchCrash ==
  /\ dp.pc \in {"mark", "loop"}
  /\ dp' = IdleDp
  /\ delivered' = [k \in 1..Len(delivered) |->
                     IF delivered[k].id = dp.id
                        /\ delivered[k].run = jobs[dp.job].runs
                     THEN [delivered[k] EXCEPT !.interrupted = TRUE]
                     ELSE delivered[k]]
  /\ sresp' = NoSchedResp
  /\ UNCHANGED <<now, users, linkVars, vaultVars, publishVars, keyVars,
                 utilVars, cr, posts, jobs, cn>>

NextScheduleCrash ==
  \/ NextSchedule
  \/ DispatchCrash

SpecScheduleCrash == InitSchedule /\ [][NextScheduleCrash]_vars

\* C30 (as claimed): when a run of a scheduled publish is interrupted after
\* some targets were published and the intent is triggered again, no target
\* published by the interrupted run is published a second time.
C30_RetrySkipsPublishedTargets ==
  \A a, b \in 1..Len(delivered) :
    (/\ delivered[a].interrupted
     /\ delivered[b].id = delivered[a].id
     /\ delivered[b].i = delivered[a].i) => delivered[b].run = delivered[a].run

\* what holds: within one run every target of the intent is published at
\* most once
OncePerRun ==
  \A a, b \in 1..Len(delivered) :
    (/\ delivered[b].id = delivered[a].id
     /\ delivered[b].i = delivered[a].i
     /\ delivered[b].run = delivered[a].run) => a = b

\* the Dispatcher under a fair poller: a due job is handed out, a run that
\* began goes on to its end, time passes and a cancel request that began is
\* answered; no worker dies
SpecScheduleFair ==
  /\ InitSchedule
  /\ [][NextSchedule]_vars
  /\ WF_vars(\E j \in 1..MaxPosts, acked \in BOOLEAN : DispatchBegin(j, acked))
  /\ WF_vars(\E acked \in BOOLEAN : DispatchMark(acked))
  /\ WF_vars(\E env \in ScheduleEnvs : DispatchTarget(env))
  /\ WF_vars(\E acked \in BOOLEAN : DispatchFinish(acked))
  /\ WF_vars(\E idOk \in BOOLEAN : CancelFinish(idOk))
  /\ WF_vars(ScheduleClock)

\* the statuses the claim calls terminal
TerminalStatus == {"canceled", "published", "partial", "failed"}

\* C29 (as claimed): under fairness of the poller every intent that has been
\* created eventually reaches a terminal status (canceled, published,
\* partial or failed).
C29_EveryIntentEnds ==
  \A id \in 1..MaxPosts :
    (id \in 1..Len(posts)) ~>
       (id \in 1..Len(posts) /\ posts[id].status \in TerminalStatus)

\* what holds under the fair poller: an intent whose trigger was queued does
\* not stay pending
QueuedIntentLeavesPending ==
  \A id \in 1..MaxPosts :
    (id \in 1..Len(posts) /\ posts[id].jobId # 0) ~>
       (id \in 1..Len(posts) /\ posts[id].status # "pending")

\* ---------------------------------------------------------------------------
\* scheduled publish: a provider that never answers
\* ---------------------------------------------------------------------------

\* publish_scheduled_post, lines 55-74: the token is at hand and adapter.post
\* (or publishImage) is awaited; the axios call carries no timeout, so when
\* the provider never answers the await never resolves and no line of the
\* handler runs after it
DispatchHang ==
  LET post == posts[dp.id]
      target == post.accounts[dp.i]
      doc == users[post.userId].linkedAccounts
      r == DispatchResolve(doc, target)
  IN  /\ dp.pc = "loop"
      /\ dp.i <= Len(post.accounts)
      /\ r.idx # 0
      /\ ~ExpSoon(doc[r.idx], now)
      /\ dp' = [dp EXCEPT !.pc = "awaiting"]
      /\ sresp' = NoSchedResp
      /\ UNCHANGED <<now, users, linkVars, vaultVars, publishVars, keyVars,
                     utilVars, cr, delivered, posts, jobs, cn>>

NextScheduleSlow ==
  \/ NextSchedule
  \/ DispatchHang

\* the fair poller of SpecScheduleFair with providers that may never answer
SpecScheduleSlow ==
  /\ InitSchedule
  /\ [][NextScheduleSlow]_vars
  /\ WF_vars(\E j \in 1..MaxPosts, acked \in BOOLEAN : DispatchBegin(j, acked))
  /\ WF_vars(\E acked \in BOOLEAN : DispatchMark(acked))
  /\ WF_vars(\E env \in ScheduleEnvs : DispatchTarget(env))
  /\ WF_vars(\E acked \in BOOLEAN : DispatchFinish(acked))
  /\ WF_vars(\E idOk \in BOOLEAN : CancelFinish(idOk))
  /\ WF_vars(ScheduleClock)

\* C31 (as claimed): the execution of a scheduled intent always terminates,
\* also when the provider call of one target never answers: the call is
\* bounded by a timeout, and the remaining targets and the final status
\* write still happen.
C31_RunTerminates ==
  (dp.pc # "idle") ~> (dp.pc = "idle")

\* what holds: when every provider call is answered, a run that began ends
RunEndsWhenAnswered ==
  (dp.pc \in {"mark", "loop"}) ~> (dp.pc = "idle")

\* ---------------------------------------------------------------------------
\* scheduled publish: the create request step by step
\* ---------------------------------------------------------------------------
\* CreateScheduledPost above is the request run from its first line to its
\* last.  The three actions below are the same handler cut at its awaits, so
\* that other requests may be served in between.

\* createScheduledPost, lines 19-31: validate, save the post as pending
CreateSave(uid, body) ==
  LET valid == /\ body.accounts # <<>>
               /\ body.contentOk
               /\ DateGreater(body.scheduledFor, now)
      id == Len(posts) + 1
  IN  /\ cr.pc = "idle"
      /\ Len(posts) < MaxPosts
      /\ IF ~valid
         THEN /\ sresp' = SchedResp("error", "create",
                            AppError(<<"validation_error">>, 400), 400, 0, body)
              /\ UNCHANGED <<posts, cr>>
         ELSE /\ posts' = Append(posts,
                   [userId |-> uid, accounts |-> body.accounts,
                    hasMedia |-> body.hasMedia,
                    scheduledFor |-> body.scheduledFor, status |-> "pending",
                    jobId |-> 0, result |-> <<>>, error |-> <<>>])
              /\ cr' = [pc |-> "queue", id |-> id, job |-> 0,
                        scheduledFor |-> body.scheduledFor]
              /\ sresp' = NoSchedResp
      /\ UNCHANGED <<now, users, linkVars, vaultVars, publishVars, keyVars,
                     utilVars, delivered, jobs, dp, cn>>

\* createScheduledPost, line 34: agenda.schedule(scheduledFor, ...)
CreateQueue(queueOk) ==
  /\ cr.pc = "queue"
  /\ IF queueOk
     THEN /\ jobs' = Append(jobs, [postId |-> cr.id,
                                   nextRunAt |-> cr.scheduledFor,
                                   removed |-> FALSE, finished |-> FALSE,
                                   runs |-> 0])
          /\ cr' = [cr EXCEPT !.pc = "jobId", !.job = Len(jobs) + 1]
          /\ sresp' = NoSchedResp
     ELSE /\ sresp' = SchedResp("error", "create",
                        PlainError("agenda_schedule_failed"), 500, cr.id,
                        [scheduledFor |-> cr.scheduledFor])
          /\ cr' = IdleCr
          /\ UNCHANGED jobs
  /\ UNCHANGED <<now, users, linkVars, vaultVars, publishVars, keyVars,
                 utilVars, delivered, posts, dp, cn>>

\* createScheduledPost, lines 36-39: post.jobId is set and saved (the save
\* writes the one modified path), then 201
CreateJobId ==
  /\ cr.pc = "jobId"
  /\ posts' = [posts EXCEPT ![cr.id].jobId = cr.job]
  /\ sresp' = SchedResp("ok", "create", NoError, 201, cr.id,
                        [scheduledFor |-> cr.scheduledFor])
  /\ cr' = IdleCr
  /\ UNCHANGED <<now, users, linkVars, vaultVars, publishVars, keyVars,
                 utilVars, delivered, jobs, dp, cn>>

\* create and cancel requests and the Dispatcher, interleaved at every await
NextScheduleSteps ==
  \/ \E u \in ScheduleUsers, body \in ScheduleBodies : CreateSave(u, body)
  \/ \E queueOk \in BOOLEAN : CreateQueue(queueOk)
  \/ CreateJobId
  \/ \E u \in ScheduleUsers, id \in 1..MaxPosts : CancelBegin(u, id)
  \/ \E idOk \in BOOLEAN : CancelFinish(idOk)
  \/ \E j \in 1..MaxPosts, acked \in BOOLEAN : DispatchBegin(j, acked)
  \/ \E acked \in BOOLEAN : DispatchMark(acked)
  \/ \E env \in ScheduleEnvs : DispatchTarget(env)
  \/ \E acked \in BOOLEAN : DispatchFinish(acked)
  \/ ScheduleClock

SpecScheduleSteps == InitSchedule /\ [][NextScheduleSteps]_vars

\* a job of the intent id is still queued
Queued(id) ==
  \E j \in 1..Len(jobs) :
    jobs[j].postId = id /\ ~jobs[j].removed /\ ~jobs[j].finished

\* a cancel request has succeeded for the intent id: only it writes canceled
Canceled(id) == id \in 1..Len(posts) /\ posts[id].status = "canceled"

\* C32 (as claimed): after a cancel request has succeeded for an intent, no
\* queued job for that intent remains in the job queue, under every
\* interleaving of the create request and the cancel request.
C32_CancelRemovesQueuedJob ==
  \A id \in 1..MaxPosts : Canceled(id) => ~Queued(id)

\* what holds: when the cancel request read the job handle of the intent,
\* its success leaves no queued job of the intent
CancelWithHandleRemovesJob ==
  [][ (sresp'.kind = "ok" /\ sresp'.op = "cancel" /\ cn.jobId # 0) =>
        ~(\E j \in 1..Len(jobs') :
            jobs'[j].postId = cn.id /\ ~jobs'[j].removed) ]_vars

\* ---------------------------------------------------------------------------
\* the /schedule routes as mounted
\* ---------------------------------------------------------------------------

\* app.use('/schedule', apiRateLimiter, scheduleRoutes): the middlewares a
\* request passes before a controller of routes/scheduleRoutes.js (lines
\* 1-27: router.post, router.get and router.delete take the controller only)
ScheduleChain == <<"apiRateLimiter">>
\* router.post('/regenerate-key', apiKeyAuth, regenerate)
RegenerateChain == <<"apiRateLimiter", "apiKeyAuth">>

Authenticates(chain) == \E k \in 1..Len(chain) : chain[k] = "apiKeyAuth"

\* what next() receives from the chain, NoError when the controller is
\* reached, and req.user as the controller finds it (0: undefined)
ChainError(chain, us, raw) ==
  IF Authenticates(chain) THEN AuthError(us, raw) ELSE NoError
ReqUser(chain, us, raw) ==
  IF Authenticates(chain) THEN ResolveApiKey(us, raw) ELSE 0

ScheduleOps == {"create", "list", "cancel"}

\* a request to POST /schedule, GET /schedule or DELETE /schedule/:id with
\* the X-API-Key raw, up to its answer.  The controllers read req.user._id
\* (part_009 lines 23, 47 and 58; create validates the body before, lines
\* 19-20); with req.user undefined the read throws a TypeError, which the
\* catch passes to the error handler.  With a req.user the controllers go on
\* as CreateScheduledPost, ListScheduledPosts and CancelBegin do
RouteSchedule(op, raw, body, id) ==
  LET err == ChainError(ScheduleChain, users, raw)
      user == ReqUser(ScheduleChain, users, raw)
      valid == /\ body.accounts # <<>>
               /\ body.contentOk
               /\ DateGreater(body.scheduledFor, now)
      thrown == IF err # NoError THEN err
                ELSE IF op = "create" /\ ~valid
                THEN AppError(<<"validation_error">>, 400)
                ELSE PlainError("TypeError")
  IN  /\ err # NoError \/ user = 0
      /\ sresp' = [SchedResp("error", op, thrown, ErrorHandler(thrown).status,
                             IF op = "cancel" THEN id ELSE 0,
                             IF op = "create" THEN body ELSE NoBody)
                     EXCEPT !.route = TRUE, !.raw = raw]
      /\ UNCHANGED <<now, users, linkVars, vaultVars, publishVars, keyVars,
                     utilVars, delivered, cr, posts, jobs, dp, cn>>

\* the bodies of the requests: no target (invalid) or one
RouteBodies == {b \in ScheduleBodies : Len(b.accounts) <= 1}

\* the requests of two clients to the key and schedule routes
NextRoutes ==
  \/ \E op \in ScheduleOps, raw \in LinkingKeys, body \in RouteBodies,
        id \in 1..MaxPosts : RouteSchedule(op, raw, body, id)
  \/ \E raw \in LinkingKeys : ApiKeyAuth(raw)
  \/ \E raw \in LinkingKeys, dbOk \in BOOLEAN : Regenerate(raw, dbOk)
  \/ ScheduleClock

SpecRoutes == InitSchedule /\ [][NextRoutes]_vars

\* a request to a schedule route has been answered in this step
RouteAnswered == sresp'.route /\ sresp' # sresp

\* C33 (as claimed): every request to the schedule endpoints passes API-key
\* authentication before its controller runs: one carrying a valid API key
\* is served for the Identity of the key (it is not turned away with 401 or
\* with a server error), and one without a valid key is rejected with 401.
C33_ScheduleRoutesAuthenticate ==
  [][ RouteAnswered =>
        IF ResolveApiKey(users, sresp'.raw) # 0
        THEN sresp'.sent.status \notin {401, 500}
        ELSE sresp'.sent.status = 401 ]_vars

\* what holds: whatever key a schedule request carries, it is answered with
\* a validation error or a server error and no intent or job is touched
ScheduleRoutesUnserved ==
  [][ RouteAnswered =>
        /\ sresp'.sent \in { [status |-> 400, code |-> <<"validation_error">>],
                             [status |-> 500, code |-> <<"internal_error">>] }
        /\ posts' = posts /\ jobs' = jobs ]_vars

\* ---------------------------------------------------------------------------
\* the five adapters in the connect flow
\* ---------------------------------------------------------------------------

\* callbacks of well-formed flows, for every adapter
AdapterRequests ==
  { [platform |-> p, hasCode |-> TRUE, state |-> t, hasError |-> FALSE] :
      p \in Platforms, t \in 1..MaxStates }

NextAdapters ==
  \/ \E p \in Platforms : Connect(p, 0, TRUE)
  \/ \E rq \in AdapterRequests :
       \E reply \in RepliesFor(rq) : CallbackBegin(1, rq, reply)
  \/ CallbackUpsert(1)
  \/ \E dbOk \in BOOLEAN : CallbackFinish(1, dbOk, "json")

SpecAdapters == Init /\ [][NextAdapters]_vars

\* the callback of caller c has exchanged its code in this step
Exchanged(c) == cb[c].pc = "idle" /\ cb'[c].pc = "upsert"

\* C34 (as claimed): for each of the five adapters the authorization URL of
\* a flow carries a code_challenge, and the token exchange of the same flow
\* sends the code_verifier stored in the state record.
C34_ExchangeSendsVerifier ==
  [][ \A c \in Callers :
        Exchanged(c) => cb'[c].sentVerifier = cb'[c].st.codeVerifier ]_vars

\* what holds: the twitter, linkedin and youtube adapters send the stored
\* verifier, the facebook and instagram adapters send none
VerifierSentBySome ==
  [][ \A c \in Callers :
        Exchanged(c) =>
          cb'[c].sentVerifier =
            IF cb'[c].rq.platform \in {"facebook", "instagram"}
            THEN 0 ELSE cb'[c].st.codeVerifier ]_vars

\* ---------------------------------------------------------------------------
\* failing connects and failing callbacks
\* ---------------------------------------------------------------------------

\* a connect has answered with an error in this step
ConnectFailed ==
  connResp'.kind = "error" /\ (connResp' # connResp \/ nState' # nState)

\* C35 (as claimed): a connect that fails, for whatever reason, leaves no
\* PKCE State Record of that attempt persisted.
C35_FailedConnectLeavesNoState ==
  [][ ConnectFailed => oauthStates' = oauthStates ]_vars

\* what holds: a connect that fails before the record is created (unsupported
\* platform, invalid linking secret) leaves none; a connect that fails while
\* the URL is built leaves the record it created
FailedConnectState ==
  [][ ConnectFailed =>
        IF connResp'.sent.code \in {<<"unsupported_platform">>,
                                    <<"invalid_api_key">>}
        THEN oauthStates' = oauthStates
        ELSE /\ connResp'.sent = [status |-> 500, code |-> <<"internal_error">>]
             /\ \E st \in oauthStates' \ oauthStates :
                  /\ st.state = nState' /\ st.platform = connResp'.platform
                  /\ oauthStates' = oauthStates \cup {st} ]_vars

\* the linking secret of Identity u has been returned to a caller
SecretReturned(u) ==
  \E k \in handedOut : VerifyApiKey(k, users[u].apiKeyHash)

\* C36 (as claimed): a callback that ends in an error leaves no new Identity
\* behind: once no callback is running, every persisted Identity has at least
\* one Linked Account and its linking secret was returned to a caller.
C36_NoOrphanIdentity ==
  (\A c \in Callers : cb[c].pc = "idle") =>
     \A u \in 1..Len(users) :
        Len(users[u].linkedAccounts) >= 1 /\ SecretReturned(u)

\* the callback of caller c that created an Identity ends in this step
CreatorEnds(c) ==
  cb[c].pc = "finish" /\ cb'[c].pc = "idle" /\ cb[c].created # 0

\* what holds: a callback that created an Identity and ends well leaves it
\* with its Linked Account and returns its secret; one that ends in an error
\* leaves the Identity it created, whose secret no caller ever got
CreatedIdentityStays ==
  [][ \A c \in Callers :
        CreatorEnds(c) =>
          LET u == cb[c].created
          IN  /\ u <= Len(users')
              /\ users'[u].apiKeyHash = users[u].apiKeyHash
              /\ IF resp'.kind = "ok"
                 THEN /\ Len(users'[u].linkedAccounts) = 1
                      /\ resp'.apiKey \in handedOut'
                      /\ VerifyApiKey(resp'.apiKey, users'[u].apiKeyHash)
                 ELSE /\ Len(users'[u].linkedAccounts) <= 1
                      /\ \A k \in handedOut' :
                           ~VerifyApiKey(k, users'[u].apiKeyHash) ]_vars

\* ---------------------------------------------------------------------------
\* the call that follows a refresh
\* ---------------------------------------------------------------------------

\* this step is a validAccessToken call for the Linked Account of answer r,
\* and it goes on to refresh
RefreshesAgain(r) ==
  \E c \in Callers :
     /\ vt[c].pc = "idle" /\ vt'[c].pc = "refresh"
     /\ vt'[c].uid = r.uid /\ vt'[c].idx = r.idx

\* C37 (as claimed): after a successful refresh the persisted expiry lies
\* beyond the 60 second margin, so a validAccessToken call that follows at
\* once returns the stored token and does not refresh again, also when the
\* grant carried no expires_in.
C37_NoSecondRefresh ==
  [][ Refreshed(vresp) =>
        /\ ~ExpSoon(StoredOf(vresp), now)
        /\ ~RefreshesAgain(vresp) ]_vars

\* what holds: after a refresh whose grant carried expires_in the expiry is
\* beyond the margin and the next call does not refresh; after one
\* whose grant carried none the old expiry stays, within the margin, and the
\* next call for the account refreshes again
SecondRefreshWithoutExpiry ==
  [][ Refreshed(vresp) =>
        IF vresp.grant.expires_in # 0
        THEN /\ ~ExpSoon(StoredOf(vresp), now)
             /\ ~RefreshesAgain(vresp)
        ELSE /\ StoredOf(vresp).expiresAt = vresp.before.expiresAt
             /\ ExpSoon(StoredOf(vresp), now)
             /\ \A c \in Callers :
                  (vt[c].pc = "idle" /\ vt'[c] # vt[c]
                     /\ vt'[c].uid = vresp.uid /\ vt'[c].idx = vresp.idx)
                  => vt'[c].pc = "refresh" ]_vars

\* ---------------------------------------------------------------------------
\* listing and cancelling the intents of several Identities
\* ---------------------------------------------------------------------------
MaxIntents == 2
\* intents in the store when the requests start
ListLimit == 50

\* the orders .sort({ scheduledFor: -1 }) may return the posts ids in: latest
\* first, posts of equal scheduledFor in any order
SortedLatestFirst(ids) ==
  { s \in [1..Cardinality(ids) -> ids] :
      /\ \A i, j \in 1..Cardinality(ids) : i # j => s[i] # s[j]
      /\ \A i, j \in 1..Cardinality(ids) :
           i < j => posts[s[i]].scheduledFor >= posts[s[j]].scheduledFor }

\* .limit(n)
Limit(s, n) == IF Len(s) <= n THEN s ELSE SubSeq(s, 1, n)

\* listScheduledPosts, lines 45-54: the posts of req.user, latest first, at
\* most 50 of them; each document is returned with its _id
ListScheduledPosts(uid) ==
  /\ \E s \in SortedLatestFirst({id \in 1..Len(posts) : OwnedBy(posts[id], uid)}) :
       LET docs == [i \in 1..Len(s) |->
                      [id |-> s[i], userId |-> posts[s[i]].userId,
                       status |-> posts[s[i]].status,
                       scheduledFor |-> posts[s[i]].scheduledFor]]
       IN  sresp' = [SchedResp("ok", "list", NoError, 200, 0, NoBody)
                       EXCEPT !.posts = Limit(docs, ListLimit), !.uid = uid]
  /\ UNCHANGED <<now, users, linkVars, vaultVars, publishVars, keyVars,
                 utilVars, cr, delivered, posts, jobs, dp, cn>>

\* the intents of two Identities as creates have left them: pending, each
\* with its queued job
OwnedStores ==
  { [i \in 1..MaxIntents |->
       [userId |-> owner[i],
        accounts |-> <<[platform |-> "twitter", accountId |-> 1]>>,
        hasMedia |-> FALSE, scheduledFor |-> time[i], status |-> "pending",
        jobId |-> i, result |-> <<>>, error |-> <<>>]] :
      owner \in [1..MaxIntents -> ScheduleUsers],
      time \in [1..MaxIntents -> {ScheduleStep, 2 * ScheduleStep}] }

InitOwners ==
  /\ now = 0
  /\ users = <<[apiKeyHash |-> HashApiKey(1), v |-> 2,
                linkedAccounts |->
                  << [id |-> 1, platform |-> "twitter", accountId |-> 1,
                      accessTokenEnc |-> Encrypt(11),
                      refreshTokenEnc |-> Encrypt(21), expiresAt |-> <<>>],
                     [id |-> 2, platform |-> "facebook", accountId |-> 2,
                      accessTokenEnc |-> Encrypt(12),
                      refreshTokenEnc |-> <<>>, expiresAt |-> <<>>] >>],
               [apiKeyHash |-> HashApiKey(2), v |-> 0,
                linkedAccounts |-> <<>>]>>
  /\ nKey = 2
  /\ handedOut = {1, 2}
  /\ nAcc = 2
  /\ oauthStates = {}
  /\ nState = 2
  /\ consumed = {<<1, "twitter">>, <<2, "facebook">>}
  /\ connResp = NoConnResp
  /\ cb = [c \in Callers |-> IdleCb]
  /\ resp = NoResp
  /\ vt = [c \in Callers |-> IdleVault]
  /\ vresp = NoVaultResp
  /\ nTok = 0
  /\ pm = IdlePm
  /\ presp = NoPubResp
  /\ nPub = 0
  /\ posts \in OwnedStores
  /\ jobs = [i \in 1..MaxIntents |->
               [postId |-> i, nextRunAt |-> posts[i].scheduledFor,
                removed |-> FALSE, finished |-> FALSE, runs |-> 0]]
  /\ dp = IdleDp
  /\ cn = IdleCn
  /\ sresp = NoSchedResp
  /\ kresp = NoKeyResp
  /\ nRegen = 0
  /\ cx = IdleCx
  /\ delivered = <<>>
  /\ cr = IdleCr

NextOwners ==
  \/ \E u \in ScheduleUsers : ListScheduledPosts(u)
  \/ \E u \in ScheduleUsers, id \in 1..(MaxIntents + 1) : CancelBegin(u, id)
  \/ CancelFinish(TRUE)
  \/ \E j \in 1..MaxIntents : DispatchBegin(j, TRUE)
  \/ DispatchMark(TRUE)
  \/ \E env \in ScheduleEnvs : DispatchTarget(env)
  \/ DispatchFinish(TRUE)
  \/ ScheduleClock

SpecOwners == InitOwners /\ [][NextOwners]_vars

\* Identity u asks in this step to cancel intent id, and no cancel is running
CancelAsked(u, id) ==
  /\ cn.pc = "idle"
  /\ \/ cn'.pc = "cancel" /\ cn'.uid = u /\ cn'.id = id
     \/ /\ cn' = cn /\ sresp'.op = "cancel" /\ ~sresp'.route
        /\ sresp'.uid = u /\ sresp'.id = id

\* a list request is answered in this step
ListAnswered == sresp'.op = "list" /\ sresp'.kind = "ok"

\* C38: an Identity cancels and lists only its own scheduled intents: a
\* cancel request for an intent of another Identity is answered post_not_found
\* (404) and leaves every intent and every queued job as it was, a cancel
\* changes only an intent of the Identity that asked, and a list returns only
\* intents of the Identity that asked.
C38_OwnIntentsOnly ==
  [][ /\ \A u \in ScheduleUsers, id \in 1..Len(posts) :
           (CancelAsked(u, id) /\ posts[id].userId # u) =>
              /\ sresp'.kind = "error"
              /\ sresp'.sent = [status |-> 404, code |-> <<"post_not_found">>]
              /\ posts' = posts /\ jobs' = jobs /\ cn' = cn
      /\ \A id \in 1..Len(posts) :
           (posts'[id].status = "canceled" /\ posts[id].status # "canceled") =>
              cn.uid = posts[id].userId /\ cn.id = id
      /\ ListAnswered =>
           /\ \A i \in 1..Len(sresp'.posts) :
                /\ sresp'.posts[i].userId = sresp'.uid
                /\ posts[sresp'.posts[i].id].userId = sresp'.uid
           /\ \A id \in 1..Len(posts) :
                posts[id].userId = sresp'.uid =>
                   \E i \in 1..Len(sresp'.posts) : sresp'.posts[i].id = id ]_vars

\* an Identity has asked to cancel a pending intent of another Identity whose
\* job is queued
C38_Witness ==
  /\ sresp.op = "cancel" /\ ~sresp.route
  /\ sresp.id \in 1..Len(posts)
  /\ posts[sresp.id].userId # sresp.uid
  /\ posts[sresp.id].status = "pending"
  /\ ~jobs[posts[sresp.id].jobId].removed

\* an Identity has listed its intents while the store holds intents of both
ListedAmongOthers ==
  /\ sresp.op = "list" /\ Len(sresp.posts) >= 1
  /\ \E id \in 1..Len(posts) : posts[id].userId # sresp.uid

\* ---------------------------------------------------------------------------
\* disconnect, and the publishes that follow it
\* ---------------------------------------------------------------------------

\* mutant: the subdocument is not removed
DeleteNone(doc, idx) == doc

\* acc.deleteOne() and the save: the subdocument at index idx is pulled out of
\* linkedAccounts, the others keep their order
DeleteOne(doc, idx) ==
  [k \in 1..(Len(doc) - 1) |-> IF k < idx THEN doc[k] ELSE doc[k + 1]]

\* DELETE /linked-accounts/disconnect/:platform/:linkedAccountId: apiKeyAuth,
\* then disconnect (accountsController.js, lines 30-46); the save sends a
\* $pull of the subdocument and increments the version of the document
Disconnect(raw, platform, id, dbOk) ==
  LET err == AuthError(users, raw)
      uid == ResolveApiKey(users, raw)
      doc == users[uid].linkedAccounts
      idx == AccountIndex(doc, id)
      answer(kind, e) ==
        kresp' = [KeyResp(kind, "disconnect", e, raw, uid, 0)
                    EXCEPT !.linkedAccountId = id]
  IN  /\ IF err # NoError
         THEN /\ kresp' = [KeyResp("error", "disconnect", err, raw, 0, 0)
                             EXCEPT !.linkedAccountId = id]
              /\ UNCHANGED users
         ELSE IF idx = 0
         THEN /\ answer("error", AppError(<<"linked_account_not_found">>, 404))
              /\ UNCHANGED users
         ELSE IF doc[idx].platform # platform
         THEN /\ answer("error", AppError(<<"platform_mismatch">>, 400))
              /\ UNCHANGED users
         ELSE IF ~dbOk
         THEN /\ answer("error", PlainError("save_failed"))
              /\ UNCHANGED users
         ELSE /\ users' = [users EXCEPT
                             ![uid].linkedAccounts = DeleteOne(@, idx),
                             ![uid].v = @ + 1]
              /\ answer("ok", NoError)
      /\ connResp' = NoConnResp
      /\ resp' = NoResp
      /\ UNCHANGED <<now, nKey, handedOut, nAcc, oauthStates, nState, cb,
                     consumed, vaultVars, publishVars, scheduleVars, nRegen,
                     utilVars>>

\* the keys the disconnect requests of a run carry: none, the keys of the two
\* Identities, and one that was never issued
DisconnectKeys == {0, 1, 2, BogusKey}
\* the routes they name: the two Linked Accounts, each with either platform,
\* and a subdocument id that does not exist
DisconnectPlatforms == {"twitter", "facebook"}
DisconnectIds == {1, 2, 3}

\* the targets of the publishes of a run: the two Linked Accounts by
\* subdocument id, and twitter by platform alone
DisconnectTargets ==
  { [platform |-> "twitter", accountId |-> 1],
    [platform |-> "facebook", accountId |-> 2],
    [platform |-> "twitter", accountId |-> 0] }
DisconnectBodies ==
  { [accounts |-> l, contentOk |-> TRUE, hasMedia |-> FALSE] :
      l \in { <<t>> : t \in DisconnectTargets }
            \cup { <<[platform |-> "twitter", accountId |-> 1],
                     [platform |-> "facebook", accountId |-> 2]>> } }
DisconnectIntents ==
  { [accounts |-> b.accounts, contentOk |-> TRUE, hasMedia |-> FALSE,
     scheduledFor |-> ScheduleStep] :
      b \in {c \in DisconnectBodies : \A k \in 1..Len(c.accounts) :
                                         c.accounts[k].accountId # 0} }
DisconnectEnvs ==
  { [reply |-> [status |-> 200, tokens |-> TRUE, rotates |-> TRUE,
                expires_in |-> 3600],
     dbOk |-> TRUE, post |-> st] : st \in {200, 401} }

\* disconnect requests are served between the publish requests and the runs
\* of the Dispatcher; the publishes are those of Identity 1
NextDisconnect ==
  \/ /\ pm.pc = "idle" /\ dp.pc = "idle"
     /\ \E raw \in DisconnectKeys, p \in DisconnectPlatforms,
           id \in DisconnectIds, dbOk \in BOOLEAN : Disconnect(raw, p, id, dbOk)
  \/ \E body \in DisconnectBodies : PostMultiBegin(body)
  \/ \E env \in DisconnectEnvs : PostMultiTarget(env)
  \/ PostMultiRespond
  \/ \E target \in DisconnectTargets, env \in DisconnectEnvs :
       PostSingle(target, TRUE, FALSE, env)
  \/ \E body \in DisconnectIntents : CreateScheduledPost(1, body, TRUE)
  \/ \E j \in 1..MaxPosts : DispatchBegin(j, TRUE)
  \/ DispatchMark(TRUE)
  \/ \E env \in DisconnectEnvs : DispatchTarget(env)
  \/ DispatchFinish(TRUE)
  \/ ScheduleClock

SpecDisconnect == InitSchedule /\ [][NextDisconnect]_vars

\* the Linked Account with subdocument id `id` was issued and is no longer
\* among the Linked Accounts of Identity u
Gone(us, u, id) ==
  id \in 1..nAcc /\ AccountIndex(us[u].linkedAccounts, id) = 0

\* a disconnect request is answered with success in this step
DisconnectDone ==
  kresp' # kresp /\ kresp'.op = "disconnect" /\ kresp'.kind = "ok"

\* C39: a successful disconnect removes the Linked Account it names and
\* leaves the other Linked Accounts of the Identity, and the other Identities,
\* as they were; the account never comes back, and every publish that then
\* targets it, by postMulti, by postSingle or by the Dispatcher running an
\* intent (created before the disconnect or after it), records a failure
\* for that target without asking for the account's token and without
\* calling an adapter.
C39_DisconnectedNeverPublished ==
  [][ /\ DisconnectDone =>
           LET u == kresp'.uid
               id == kresp'.linkedAccountId
               before == users[u].linkedAccounts
               after == users'[u].linkedAccounts
           IN  /\ ~Gone(users, u, id) /\ Gone(users', u, id)
               /\ Len(after) = Len(before) - 1
               /\ \A k \in 1..Len(before) :
                    before[k].id # id => \E m \in 1..Len(after) : after[m] = before[k]
               /\ \A w \in 1..Len(users) : w # u => users'[w] = users[w]
               /\ Len(users') = Len(users)
      /\ \A u \in 1..Len(users), id \in 1..nAcc :
           Gone(users, u, id) => Gone(users', u, id)
      /\ (pm.pc = "loop" /\ pm'.pc = "loop" /\ pm'.i = pm.i + 1) =>
           LET target == pm.targets[pm.i]
           IN  Gone(users, PublishUser, target.accountId) =>
                 /\ pm'.attempted[pm.i].outcome =
                      Failed(<<"linked_account_not_found">>)
                 /\ users' = users /\ nTok' = nTok
      /\ (/\ presp'.op = "single" /\ nPub' # nPub
          /\ Gone(users, PublishUser, presp'.targets[1].accountId)) =>
              /\ presp'.kind = "error"
              /\ presp'.thrown = AppError(<<"linked_account_not_found">>, 404)
              /\ presp'.attempted = <<>>
              /\ users' = users /\ nTok' = nTok
      /\ (dp.pc = "loop" /\ dp'.pc = "loop" /\ dp'.i = dp.i + 1) =>
           LET target == posts[dp.id].accounts[dp.i]
               done == dp'.attempted[Len(dp'.attempted)]
           IN  Gone(users, posts[dp.id].userId, target.accountId) =>
                 /\ done.target = target
                 /\ ~done.outcome.ok
                 /\ ~done.tokenAsked /\ ~done.adapterCalled
                 /\ delivered' = delivered
                 /\ users' = users /\ nTok' = nTok ]_vars

\* the Dispatcher has gone through a target naming a Linked Account that was
\* disconnected before, while the other Linked Account is still there
C39_Witness ==
  /\ kresp.op = "disconnect" /\ kresp.kind = "ok" /\ kresp.uid = 1
  /\ Len(users[1].linkedAccounts) = 1
  /\ dp.pc = "loop"
  /\ \E k \in 1..Len(dp.attempted) :
       /\ dp.attempted[k].target.accountId = kresp.linkedAccountId
       /\ Gone(users, 1, kresp.linkedAccountId)

\* postMulti has gone through a target naming a disconnected Linked Account
\* and one naming the Linked Account that is left
PublishedAfterDisconnect ==
  /\ kresp.op = "disconnect" /\ kresp.kind = "ok"
  /\ \E k, m \in 1..Len(pm.attempted) :
       /\ pm.attempted[k].target.accountId = kresp.linkedAccountId
       /\ pm.attempted[m].outcome.ok

====
